---- MODULE Spec2Model ----
(***************************************************************************)
(* A model of lib/nghq.c: the HTTP/QUIC session engine.                    *)
(*                                                                         *)
(* Two state machines are described.                                       *)
(*   SpecRecv  - the receive reassembler of one stream                     *)
(*               (nghq_recv_stream_data and the helpers it calls), with    *)
(*               SpecInsert (its first stage alone) and SpecTwoRanges (one *)
(*               DATA frame handed over as two ranges).                    *)
(*   SpecSess  - the session: stream tables, push-promise counters, the    *)
(*               send pipeline and the close / free paths.                 *)
(*               SpecSend is the send path of a unicast client alone, what *)
(*               nghq_session_send hands to the transport being recorded.  *)
(* Bytes of the stream are identified by their stream offset ("tags"), so  *)
(* that what a buffer really holds can be told from what its offset field  *)
(* claims it holds.                                                        *)
(***************************************************************************)
EXTENDS Integers, Sequences, FiniteSets, TLC

VARIABLES
  \* ---- receive side of one stream (nghq_stream) ----
  wire,               \* the bytes the peer wrote on the stream (values)
  recv_buf,           \* stream->recv_buf: list of nghq_io_buf
  active_frames,      \* stream->active_frames: list of nghq_stream_frame
  next_recv_offset,   \* stream->next_recv_offset
  data_frames_total,  \* stream->data_frames_total
  recv_state,         \* stream->recv_state
  fault,              \* "none", or how the last call failed to return:
                      \* "hang" (a loop that cannot end), "spin" (a loop
                      \* still growing the list after Fuel rounds), "crash"
  calls,              \* callbacks invoked by the last call, in order
  hist,               \* summary of the callbacks of all calls so far
  plan,               \* ranges the transport still has to hand over (scenario)
  \* ---- session ----
  sess                \* the nghq_session record

rvars == <<wire, recv_buf, active_frames, next_recv_offset, data_frames_total,
           recv_state, fault, calls, hist, plan>>
vars == <<wire, recv_buf, active_frames, next_recv_offset, data_frames_total,
          recv_state, fault, calls, hist, plan, sess>>

(***************************************************************************)
(* Bounds of the model.                                                    *)
(***************************************************************************)
MaxHdrPayload == 2
MaxBody == 2
Fuel == 16
MaxCalls == 3
MaxPayload == 4
MaxRequests == 1
MaxPromises == 1
MaxPushArg == 1
MaxSendBufs == 2
MaxWrites == 2
MaxPack == 3
MaxPkts == 2
MaxRecvs == 2
ByteBits == 2
MaxPktNum == 6
MaxTime == 2
MaxTimers == 3

\* size_t arithmetic wraps; the model keeps the wrap with a narrower word.
SizeMod == 2 ^ 16
Wrap(x) == x % SizeMod

\* F of x, with x worked out once however often F looks at it
Once(F(_), x) == CHOOSE r \in {F(y) : y \in {x}} : TRUE

Min(S) == CHOOSE x \in S : \A y \in S : x <= y

InsertAt(list, i, x) == SubSeq(list, 1, i - 1) \o <<x>> \o SubSeq(list, i, Len(list))
RemoveAt(list, i) == SubSeq(list, 1, i - 1) \o SubSeq(list, i + 1, Len(list))

(***************************************************************************)
(* Stream states, in the order of the enum.                                *)
(***************************************************************************)
StateRank(s) ==
  CASE s = "OPEN" -> 0 [] s = "HDRS" -> 1 [] s = "BODY" -> 2
    [] s = "TRAILERS" -> 3 [] s = "DONE" -> 4

(***************************************************************************)
(* Frame codec (frame_parser.c): a frame is a type byte, a length byte and *)
(* the payload.                                                            *)
(***************************************************************************)
NGHQ_FRAME_TYPE_DATA == 0
NGHQ_FRAME_TYPE_HEADERS == 1
NGHQ_FRAME_TYPE_PUSH_PROMISE == 5
FrameHdrLen == 2

\* the payload of a HEADERS or DATA frame is of no interest: zeros
FrameBytes(f) ==
  <<f.type, f.len>> \o [i \in 1..f.len |-> IF "payload" \in DOMAIN f THEN f.payload[i] ELSE 0]

RECURSIVE WireOf(_)
WireOf(fs) == IF fs = <<>> THEN <<>> ELSE FrameBytes(Head(fs)) \o WireOf(Tail(fs))

HFrame(n) == [type |-> NGHQ_FRAME_TYPE_HEADERS, len |-> n]
DFrame(n) == [type |-> NGHQ_FRAME_TYPE_DATA, len |-> n]
\* a PUSH_PROMISE frame: the push id, then the header block, which is either
\* that of a request (0) or :path goaway with connection close (1)
PFrame(push_id, goaway) ==
  [type |-> NGHQ_FRAME_TYPE_PUSH_PROMISE, len |-> 2,
   payload |-> <<push_id, IF goaway THEN 1 ELSE 0>>]

\* The frame sequences a peer may write on the stream.
Layouts ==
  { <<HFrame(h), DFrame(d)>> : h \in 1..MaxHdrPayload, d \in 1..MaxBody }
    \cup { <<HFrame(1), DFrame(1), HFrame(1)>>, <<DFrame(1), HFrame(1)>>,
           <<HFrame(1), HFrame(1)>>, <<HFrame(1), HFrame(1), DFrame(1)>>,
           <<HFrame(1), DFrame(1), HFrame(1), DFrame(1)>> }

\* A byte read from outside a buffer (tag -1) has no defined value; 0 stands for it.
WireByte(tag) == IF tag < 0 THEN 0 ELSE wire[tag + 1]

\* parse_frame_header: the size of the whole frame, or 0 for "need more".
parse_frame_header(view) ==
  IF Len(view.buf) >= FrameHdrLen
  THEN [size |-> FrameHdrLen + WireByte(view.buf[2]), type |-> WireByte(view.buf[1])]
  ELSE [size |-> 0, type |-> 0]

\* parse_data_frame: the payload length the frame header declares.
parse_data_frame(view) == WireByte(view.buf[2])

(***************************************************************************)
(* I/O buffers (io_buf.c).  buf is the sequence of bytes held (as tags);   *)
(* sp is send_pos - buf; own is FALSE when buf points into another         *)
(* buffer's allocation.                                                    *)
(***************************************************************************)
nghq_io_buf_new(id, buf, fin, offset, own) ==
  [id |-> id, offset |-> offset, buf |-> buf, sp |-> 0, remaining |-> Len(buf),
   complete |-> fin, own |-> own]

NoView == [buf |-> <<>>, offset |-> 0, complete |-> FALSE, valid |-> FALSE]

Crash(st) == [st EXCEPT !.fault = "crash"]
\* Undefined behaviour that does not stop the process at once: the call
\* either dies there or goes on with memory as it was (st.u decides).
Undefined(st) == IF st.u THEN Crash(st) ELSE st

\* nghq_io_buf_pop on the i-th buffer of the list: unlink, free(buf), free(node).
nghq_io_buf_pop(st, i) ==
  LET b == st.recv_buf[i]
      s1 == [st EXCEPT !.recv_buf = RemoveAt(st.recv_buf, i)]
  IN IF b.own THEN s1 ELSE Undefined(s1)


Huge(n) == n >= SizeMod \div 2

\* The n bytes at buf[from+1 ..]; bytes beyond the allocation read as tag -1.
Bytes(buf, from, n) == [k \in 1..n |-> IF from + k <= Len(buf) THEN buf[from + k] ELSE -1]

(***************************************************************************)
(* _trim_and_append on the i-th receive buffer.                            *)
(***************************************************************************)
_trim_and_append(st, i, data) ==
  LET b == st.recv_buf[i]
  IN IF b.sp = 0
     THEN \* realloc in place, append
          LET nb == [b EXCEPT !.buf = b.buf \o data,
                              !.remaining = Len(b.buf) + Len(data)]
              s1 == [st EXCEPT !.recv_buf[i] = nb]
          IN IF b.own THEN s1 ELSE Undefined(s1)
     ELSE \* copy what is left into a new allocation, append, free the old one
          IF Huge(b.remaining) THEN Crash(st)
          ELSE LET nb == [b EXCEPT !.buf = Bytes(b.buf, b.sp, b.remaining) \o data,
                                   !.sp = 0,
                                   !.offset = Wrap(b.offset + Len(b.buf) - b.remaining),
                                   !.remaining = b.remaining + Len(data),
                                   !.own = TRUE]
                   s1 == [st EXCEPT !.recv_buf[i] = nb]
               IN IF b.own /\ b.sp + b.remaining <= Len(b.buf) THEN s1 ELSE Undefined(s1)

(***************************************************************************)
(* _nghq_insert_recv_stream_data                                           *)
(***************************************************************************)
\* the while loop: first buffer adjacent to or after off
InsertPos(list, off) ==
  LET idx == {i \in 1..Len(list) : ~(list[i].offset + Len(list[i].buf) < off)}
  IN IF idx = {} THEN Len(list) + 1 ELSE Min(idx)

\* "merge buffer with next if overlapping or adjacent"
MergeNext(st, i) ==
  LET list == st.recv_buf
      p == list[i]
  IN IF i + 1 > Len(list) \/ ~(list[i + 1].offset <= p.offset + Len(p.buf))
     THEN st
     ELSE LET nx == list[i + 1]
              overlap == p.offset + Len(p.buf) - nx.offset
          IN IF overlap > Len(nx.buf)
             THEN \* (*next)->buf_len - overlap wraps: memcpy of nearly 2^64 bytes
                  Crash(st)
             ELSE LET s1 == _trim_and_append(st, i, SubSeq(nx.buf, overlap + 1, Len(nx.buf)))
                      s2 == [s1 EXCEPT !.recv_buf[i].complete = @ \/ nx.complete]
                  IN IF s1.fault # "none" THEN s1 ELSE nghq_io_buf_pop(s2, i + 1)

_nghq_insert_recv_stream_data(st, data, off, eos) ==
  LET list == st.recv_buf
      i == InsertPos(list, off)
      fresh == i > Len(list) \/ list[i].offset > off
      end_overlap == IF fresh THEN 0 ELSE list[i].offset + Len(list[i].buf) - off
  IN IF ~fresh /\ end_overlap >= Len(data)
     THEN st    \* total overlap, ignore buffer
     ELSE LET s1 == IF fresh
                    THEN [st EXCEPT !.recv_buf =
                            InsertAt(list, i, nghq_io_buf_new(st.nid, data, eos, off, TRUE)),
                                    !.nid = st.nid + 1]
                    ELSE LET t == _trim_and_append(st, i,
                                     SubSeq(data, end_overlap + 1, Len(data)))
                         IN IF t.fault # "none" THEN t
                            ELSE [t EXCEPT !.recv_buf[i].complete = @ \/ eos]
          IN IF s1.fault # "none" THEN s1 ELSE MergeNext(s1, i)

(***************************************************************************)
(* _nghq_stream_recv_data_at: a view of the received bytes from offset to  *)
(* the end of the buffer that holds it (ordinary streams).                 *)
(***************************************************************************)
HoldsAt(b, offset) == b.offset <= offset /\ b.offset + Len(b.buf) > offset

\* the stream the multicast sender writes its push promises on
NGHQ_PUSH_PROMISE_STREAM == 4

\* on the push promise stream a first buffer that begins behind offset is
\* passed back as well: what is left of it, from where it was read up to
_nghq_stream_recv_data_at(stream_id, list, offset) ==
  LET idx == {i \in 1..Len(list) : HoldsAt(list[i], offset)}
  IN IF stream_id = NGHQ_PUSH_PROMISE_STREAM /\ list # <<>> /\ list[1].offset > offset
     THEN LET b == list[1]
          IN [buf |-> Bytes(b.buf, b.sp, b.remaining),
              offset |-> Wrap(b.offset + Len(b.buf) - b.remaining),
              complete |-> b.complete, valid |-> TRUE]
     ELSE IF idx = {} THEN NoView
     ELSE LET b == list[Min(idx)]
          IN [buf |-> SubSeq(b.buf, offset - b.offset + 1, Len(b.buf)),
              offset |-> offset, complete |-> b.complete, valid |-> TRUE]

(***************************************************************************)
(* _nghq_stream_recv_pop_data                                              *)
(***************************************************************************)
\* the two "remaining == 0" checks at the end, on the buffer now at *pb
PopIfDrained(st, i) ==
  IF i <= Len(st.recv_buf) /\ st.recv_buf[i].remaining = 0
  THEN nghq_io_buf_pop(st, i) ELSE st

_nghq_stream_recv_pop_data(st, offset, len) ==
  LET list == st.recv_buf
      idx == {i \in 1..Len(list) : HoldsAt(list[i], offset)}
  IN IF idx = {} THEN st
     ELSE
       LET i == Min(idx)
           b == list[i]
           rel == offset - b.offset
           first_len == rel
           second_len == Wrap((b.sp + b.remaining) - (rel + len))
           s1 ==
             IF b.sp = rel
             THEN [st EXCEPT !.recv_buf[i].sp = b.sp + len,
                             !.recv_buf[i].remaining = Wrap(b.remaining - len)]
             ELSE IF Wrap(b.sp + b.remaining) = Wrap(rel + len)
             THEN [st EXCEPT !.recv_buf[i].remaining = Wrap(b.remaining - len)]
             ELSE IF first_len < second_len
             THEN \* the first part becomes a new buffer in front of this one
                  LET tmp == nghq_io_buf_new(st.nid, Bytes(b.buf, b.sp, first_len),
                                             FALSE, b.offset + b.sp, FALSE)
                      nb == [b EXCEPT !.sp = rel + len, !.remaining = second_len]
                  IN [st EXCEPT !.recv_buf = InsertAt([list EXCEPT ![i] = nb], i, tmp),
                                !.nid = st.nid + 1]
             ELSE \* the second part becomes a new buffer behind this one
                  LET tmp == nghq_io_buf_new(st.nid, Bytes(b.buf, rel + len, second_len),
                                             b.complete, offset + len, FALSE)
                      nb == [b EXCEPT !.remaining = first_len]
                  IN [st EXCEPT !.recv_buf = InsertAt([list EXCEPT ![i] = nb], i + 1, tmp),
                                !.nid = st.nid + 1]
           s2 == PopIfDrained(s1, i)
       IN IF s2.fault # "none" THEN s2 ELSE PopIfDrained(s2, i)

(***************************************************************************)
(* _remove_gap                                                             *)
(***************************************************************************)
_remove_gap(gaps, begin, end) ==
  LET idx == {k \in 1..Len(gaps) : ~(gaps[k].end <= begin)}
  IN IF idx = {} THEN gaps
     ELSE LET k == Min(idx)
              g == gaps[k]
          IN IF ~(g.begin < end \/ g.end > begin) THEN gaps
             ELSE IF g.begin < begin /\ g.end > end
             THEN \* split
                  SubSeq(gaps, 1, k - 1)
                    \o <<[begin |-> g.begin, end |-> begin], [begin |-> end, end |-> g.end]>>
                    \o SubSeq(gaps, k + 1, Len(gaps))
             ELSE \* truncate/delete
                  LET g1 == IF g.begin >= begin THEN [g EXCEPT !.begin = end] ELSE g
                      g2 == IF g1.end <= end THEN [g1 EXCEPT !.end = begin] ELSE g1
                  IN IF g2.end <= g2.begin THEN RemoveAt(gaps, k)
                     ELSE [gaps EXCEPT ![k] = g2]


(***************************************************************************)
(* Frames under reassembly.  got is the frame's storage: got[k] is the tag *)
(* of the byte copied to position k-1, and filled is the set of positions  *)
(* written so far.                                                         *)
(***************************************************************************)
GapTotal(gaps) ==
  LET RECURSIVE Sum(_)
      Sum(k) == IF k = 0 THEN 0 ELSE (gaps[k].end - gaps[k].begin) + Sum(k - 1)
  IN Sum(Len(gaps))

Filled(f) == f.filled

_nghq_stream_frame_add(st, frame_type, frame_size, offset, view) ==
  LET isData == frame_type = NGHQ_FRAME_TYPE_DATA
      datalen == parse_data_frame(view)
      hdr_len == frame_size - datalen
      eho == IF isData THEN offset + hdr_len ELSE 0
      f == [frame_type |-> frame_type, offset |-> offset, buf_len |-> frame_size,
            complete |-> view.complete /\ frame_size = Len(view.buf),
            gaps |-> <<[begin |-> 0, end |-> frame_size]>>,
            end_header_offset |-> eho,
            data_offset_adjust |-> IF isData THEN Wrap(eho - st.data_frames_total) ELSE 0,
            got |-> [k \in 1..frame_size |-> -1], filled |-> {}]
  IN [st EXCEPT !.active_frames = Append(@, f),
                !.data_frames_total = IF isData THEN @ + datalen ELSE @]

\* _frame_add_data: the frame after the copy, and the number of bytes used
_frame_add_data(frame, view) ==
  LET copy_offset == view.offset - frame.offset
      room == frame.buf_len - copy_offset
      trunc == Len(view.buf) > room
      copy_len == IF trunc THEN room ELSE Len(view.buf)
      complete == IF trunc THEN FALSE ELSE view.complete
  IN [frame |-> [frame EXCEPT
                   !.got = [k \in 1..frame.buf_len |->
                              IF k > copy_offset /\ k <= copy_offset + copy_len
                              THEN view.buf[k - copy_offset] ELSE @[k]],
                   !.filled = @ \cup ((copy_offset + 1)..(copy_offset + copy_len)),
                   !.complete = @ \/ complete,
                   !.gaps = _remove_gap(@, copy_offset, copy_offset + copy_len)],
      used |-> copy_len]

_frame_contains_stream_range(frame, offset, datalen) ==
  LET end_offset == Wrap(offset + datalen)
  IN [hit |-> frame.offset < end_offset /\ frame.offset + frame.buf_len > offset,
      frame_data_offset |-> IF offset > frame.offset THEN offset ELSE frame.offset]

(***************************************************************************)
(* The session (nghq_session) and its streams.                             *)
(* A stream table (map.c) is a function from ids to streams.  user_data    *)
(* pointers given by the application are the numbers 1..MaxRequests; the   *)
(* pointer nghq_stream_init stores (the address of a field of the stream   *)
(* itself) is a negative number no other stream has.                       *)
(***************************************************************************)
NGHQ_STREAM_ID_MAP_NOT_FOUND == -1
NGHQ_CONTROL_CLIENT == 2
NGHQ_CONTROL_SERVER == 3
\* "in multicast mode we fake this as Stream 0"
NGHQ_INIT_REQUEST_STREAM_ID == 0
\* the largest push id of the multicast profile: every bit below the top two
NGHQ_MULTICAST_MAX_UNI_STREAM_ID == (SizeMod \div 4) - 1

UserData == 1..MaxRequests
\* ids the transport may hand out for client bidirectional and server
\* unidirectional streams
BidiIds == {4 * k : k \in 0..MaxRequests}
UniIds == {NGHQ_CONTROL_SERVER + 4 * k : k \in 1..MaxPromises}

OwnData(n) == 0 - (n + 1)

nghq_stream_init(own) ==
  [obj |-> own,
   stream_id |-> NGHQ_STREAM_ID_MAP_NOT_FOUND, push_id |-> NGHQ_STREAM_ID_MAP_NOT_FOUND,
   user_data |-> OwnData(own), recv_state |-> "OPEN", send_state |-> "OPEN",
   send_buf |-> <<>>, trailers_promised |-> FALSE]

nghq_stream_new(stream_id) == [nghq_stream_init(stream_id) EXCEPT !.stream_id = stream_id]

EmptyMap == [k \in {} |-> 0]
nghq_stream_id_map_find(map, id) == id \in DOMAIN map
nghq_stream_id_map_add(map, id, stream) ==
  IF id \in DOMAIN map THEN map ELSE [k \in DOMAIN map \cup {id} |->
                                        IF k = id THEN stream ELSE map[k]]
nghq_stream_id_map_remove(map, id) == [k \in DOMAIN map \ {id} |-> map[k]]
nghq_stream_id_map_search(map, user_data) ==
  LET hits == {k \in DOMAIN map : map[k].user_data = user_data}
  IN IF hits = {} THEN NGHQ_STREAM_ID_MAP_NOT_FOUND ELSE Min(hits)

\* a buffer queued for sending: the frame it holds, the push id written in
\* front of it (-1 for none), the remaining bytes and the fin mark
SendBuf(frame, push_id, remaining, complete) ==
  [frame |-> frame, push_id |-> push_id, remaining |-> remaining, complete |-> complete]

MIN_STREAM_PACKET_OVERHEAD == 27

\* the values of transport_settings.max_packet_size the application gives
PacketSizes == {MIN_STREAM_PACKET_OVERHEAD + n : n \in (MaxPack - 1)..MaxPack}

\* what the last call did with the transport, when it was nghq_session_send:
\* the number of buffers and of bytes it passed to the last
\* ngtcp2_conn_write_stream, the stream bytes the transport took in the whole
\* call, whether it met the limit of bytes in flight, and what it returned
NoIo == [call |-> FALSE, bufs |-> 0, len |-> 0, sent |-> 0, limit |-> FALSE, err |-> 0,
         rv |-> "NGHQ_OK"]

\* _nghq_session_new_common, _nghq_start_session and what the two
\* constructors add to the transfers table; bidi is the id the transport gives
\* to the stream the multicast client opens
NULL == 0

\* the timestamp that stands for "never"; no clock of the model reaches it
UINT64_MAX == SizeMod - 1

\* The host behind session_user_data, as far as its timers go: its clock,
\* the timers it has armed (handle, timer event, expiry) and the handle it
\* gives out next.
NoTimers == [now |-> 0, armed |-> {}, next |-> 1]

\* a start that gives every session the limit of a multicast session
StartWithMulticastLimit(mode) == NGHQ_MULTICAST_MAX_UNI_STREAM_ID

\* _nghq_start_session: the max_push_promise a session starts with
_nghq_start_session(mode) ==
  IF mode = "MULTICAST" THEN NGHQ_MULTICAST_MAX_UNI_STREAM_ID ELSE 0

nghq_session_new(role, mode, bidi, max_packet_size) ==
  LET stream0 == nghq_stream_new(0)
      control == nghq_stream_new(NGHQ_CONTROL_SERVER)
      request == nghq_stream_new(bidi)
      t0 == nghq_stream_id_map_add(EmptyMap, 0, stream0)
      t1 == IF role = "SERVER"
            THEN nghq_stream_id_map_add(t0, NGHQ_CONTROL_SERVER, control)
            ELSE IF mode = "MULTICAST"
            THEN nghq_stream_id_map_add(t0, bidi, request)
            ELSE t0
  IN [role |-> role, mode |-> mode,
      max_packet_size |-> max_packet_size,   \* transport_settings.max_packet_size
      io |-> NoIo,
      next_push_promise |-> 0,
      max_push_promise |-> _nghq_start_session(mode),
      transfers |-> t1, promises |-> EmptyMap,
      opened |-> DOMAIN t1 \ {0},     \* stream ids the transport has handed out
      send_buf |-> 0,                 \* packets queued on session->send_buf
      recv_buf |-> <<>>,              \* packets queued on session->recv_buf
      recv_promises |-> 0,            \* promised streams made for PUSH_PROMISE frames
      log |-> <<>>,                   \* what the receive path called, in order
      last_remote_pkt_num |-> 0,
      handshake_complete |-> role = "SERVER" /\ mode = "MULTICAST",
      tx_pkt_num |-> 0,               \* the number the transport gives its next packet
      conn_loss_tstamp |-> UINT64_MAX, conn_loss_timer |-> NULL,
      conn_ack_tstamp |-> UINT64_MAX, conn_ack_timer |-> NULL,
      session_user_data |-> NoTimers,
      submitted |-> {},               \* user_data of the requests submitted
      closes |-> [d \in UserData |-> 0],  \* on_request_close calls per user_data
      freed |-> FALSE, rv |-> "NGHQ_OK"]

InitSess == nghq_session_new("CLIENT", "UNICAST", 4, MIN_STREAM_PACKET_OVERHEAD + MaxPack)

Ret(s, rv) == [s EXCEPT !.rv = rv]

\* the limit test of nghq_submit_push_promise
PushLimitIgnored(s) == FALSE

PushLimitReached(s) == s.next_push_promise >= s.max_push_promise

\* a counter that hands out the same push id again
SamePushId(n) == n

\* "next_push_promise++"
NextPushId(n) == Wrap(n + 1)

nghq_submit_push_promise(s, init_request_user_data, promised_request_user_data) ==
  IF s.role # "SERVER" THEN Ret(s, "NGHQ_SERVER_ONLY")
  ELSE IF PushLimitReached(s) THEN Ret(s, "NGHQ_PUSH_LIMIT_REACHED")
  ELSE LET init_id == IF s.mode = "MULTICAST" THEN NGHQ_INIT_REQUEST_STREAM_ID
                      ELSE nghq_stream_id_map_search(s.transfers, init_request_user_data)
           push_id == s.next_push_promise
           promised == [nghq_stream_init(1000 + push_id) EXCEPT
                          !.push_id = push_id, !.user_data = promised_request_user_data]
           s1 == [s EXCEPT !.next_push_promise = NextPushId(@),
                           !.promises = nghq_stream_id_map_add(@, push_id, promised)]
       IN IF init_id = NGHQ_STREAM_ID_MAP_NOT_FOUND THEN Ret(s, "NGHQ_ERROR")
          ELSE IF ~nghq_stream_id_map_find(s.transfers, init_id)
          THEN Ret(s1, "fault")       \* &init_stream->send_buf of a null stream
          ELSE Ret([s1 EXCEPT !.transfers[init_id].send_buf =
                               Append(@, SendBuf("PUSH_PROMISE", push_id, 1, FALSE))],
                   "NGHQ_OK")

nghq_queue_send_frame(s, stream_id) ==
  IF nghq_stream_id_map_find(s.transfers, stream_id)
  THEN Ret([s EXCEPT !.transfers[stream_id].send_buf =
                        Append(@, SendBuf("MAX_PUSH_ID", -1, 1, FALSE))],
           "NGHQ_OK")
  ELSE Ret(s, "NGHQ_INTERNAL_ERROR")

nghq_get_max_promises(s) == Wrap(s.max_push_promise - s.next_push_promise)

nghq_set_max_promises(s, max_push) ==
  IF s.role # "CLIENT" THEN Ret(s, "NGHQ_CLIENT_ONLY")
  ELSE IF Wrap(s.next_push_promise + max_push) < s.max_push_promise
  THEN Ret(s, "NGHQ_INVALID_PUSH_LIMIT")
  ELSE nghq_queue_send_frame(
         [s EXCEPT !.max_push_promise = Wrap(s.next_push_promise + max_push)],
         NGHQ_CONTROL_CLIENT)

\* a server that takes whatever limit the frame carries
MaxPushIdTaken(s, max_push_id) ==
  IF s.role # "SERVER" THEN Ret(s, "NGHQ_HTTP_MALFORMED_FRAME")
  ELSE Ret([s EXCEPT !.max_push_promise = max_push_id], "NGHQ_OK")

_nghq_stream_max_push_id_frame(s, max_push_id) ==
  IF s.role # "SERVER" THEN Ret(s, "NGHQ_HTTP_MALFORMED_FRAME")
  ELSE IF s.max_push_promise > max_push_id THEN Ret(s, "NGHQ_HTTP_MALFORMED_FRAME")
  ELSE Ret([s EXCEPT !.max_push_promise = max_push_id], "NGHQ_OK")

(***************************************************************************)
(* Feeding headers and body, submitting requests.                          *)
(***************************************************************************)
\* a check that takes every headers block for one that names trailers
TrailersInEveryBlock(flag, trailer) == TRUE

\* _check_for_trailers: flag is the stream's STREAM_FLAG_TRAILERS_PROMISED,
\* trailer says whether a field of the headers is named "trailer"
_check_for_trailers(flag, trailer) == flag \/ trailer

\* the switch on send_state of nghq_feed_headers; "" where it refuses
FeedHeadersRestart(send_state, trailers_promised) == "HDRS"

FeedHeadersSendState(send_state, trailers_promised) ==
  CASE send_state = "OPEN" -> "HDRS"
    [] send_state = "HDRS" -> "HDRS"
    [] send_state = "BODY" -> IF trailers_promised THEN "TRAILERS" ELSE ""
    [] send_state = "TRAILERS" -> "TRAILERS"
    [] OTHER -> ""

\* uni is the id the transport gives to a new unidirectional stream (or
\* NGHQ_STREAM_ID_MAP_NOT_FOUND when it refuses); trailer says whether the
\* headers hold a "trailer" field; encoded is FALSE when create_headers_frame
\* fails
nghq_feed_headers(s, trailer, final, request_user_data, uni, encoded) ==
  LET stream_id == nghq_stream_id_map_search(s.transfers, request_user_data)
      push_id == nghq_stream_id_map_search(s.promises, request_user_data)
  IN IF stream_id = NGHQ_STREAM_ID_MAP_NOT_FOUND
     THEN IF push_id = NGHQ_STREAM_ID_MAP_NOT_FOUND THEN Ret(s, "NGHQ_ERROR")
          ELSE IF Cardinality(DOMAIN s.transfers \cap UniIds) >= MaxPromises
          THEN Ret(s, "NGHQ_TOO_MANY_REQUESTS")
          ELSE IF uni = NGHQ_STREAM_ID_MAP_NOT_FOUND THEN Ret(s, "NGHQ_INTERNAL_ERROR")
          ELSE LET started == [s.promises[push_id] EXCEPT
                                 !.stream_id = uni,
                                 !.send_state = "HDRS",
                                 !.trailers_promised = _check_for_trailers(@, trailer)]
                   stream == [started EXCEPT
                                !.send_buf = Append(@, SendBuf("HEADERS", push_id, 1, final))]
               IN IF ~encoded
                  THEN Ret([s EXCEPT !.opened = @ \cup {uni},
                                     !.promises[push_id] = started],
                           "NGHQ_HDR_COMPRESS_FAILURE")
                  ELSE Ret([s EXCEPT
                              !.opened = @ \cup {uni},
                              !.transfers = nghq_stream_id_map_add(@, uni, stream),
                              !.promises = nghq_stream_id_map_remove(@, push_id)],
                           "NGHQ_OK")
     ELSE LET stream == s.transfers[stream_id]
              next == FeedHeadersSendState(stream.send_state, stream.trailers_promised)
              s1 == [s EXCEPT
                       !.transfers[stream_id].send_state = next,
                       !.transfers[stream_id].trailers_promised =
                           IF stream.send_state \in {"OPEN", "HDRS"}
                           THEN _check_for_trailers(@, trailer) ELSE @]
          IN IF next = ""
             THEN Ret(s, IF stream.send_state = "BODY" THEN "NGHQ_TRAILERS_NOT_PROMISED"
                         ELSE "NGHQ_REQUEST_CLOSED")
             ELSE IF ~encoded THEN Ret(s1, "NGHQ_HDR_COMPRESS_FAILURE")
             ELSE Ret([s1 EXCEPT !.transfers[stream_id].send_buf =
                                   Append(@, SendBuf("HEADERS", -1, 1, final))],
                      "NGHQ_OK")

nghq_feed_payload_data(s, final, request_user_data) ==
  LET stream_id == nghq_stream_id_map_search(s.transfers, request_user_data)
  IN IF stream_id = NGHQ_STREAM_ID_MAP_NOT_FOUND THEN Ret(s, "NGHQ_ERROR")
     ELSE IF StateRank(s.transfers[stream_id].send_state) > StateRank("BODY")
     THEN Ret(s, "NGHQ_REQUEST_CLOSED")
     ELSE Ret([s EXCEPT !.transfers[stream_id].send_state = "BODY",
                        !.transfers[stream_id].send_buf =
                            Append(@, SendBuf("DATA", -1, 2, final))],
              "NGHQ_OK")

nghq_set_request_user_data(s, current_user_data, new_user_data) ==
  LET stream_id == nghq_stream_id_map_search(s.transfers, current_user_data)
      push_id == nghq_stream_id_map_search(s.promises, current_user_data)
  IN IF stream_id # NGHQ_STREAM_ID_MAP_NOT_FOUND
     THEN Ret([s EXCEPT !.transfers[stream_id].user_data = new_user_data], "NGHQ_OK")
     ELSE IF push_id # NGHQ_STREAM_ID_MAP_NOT_FOUND
     THEN Ret([s EXCEPT !.promises[push_id].user_data = new_user_data], "NGHQ_OK")
     ELSE Ret(s, "NGHQ_BAD_USER_DATA")

\* shutdown is what ngtcp2_conn_shutdown_stream answers in nghq_stream_cancel;
\* a promise not yet started is cancelled with a CANCEL_PUSH frame on the
\* control stream
nghq_end_request(s, request_user_data, shutdown) ==
  LET stream_id == nghq_stream_id_map_search(s.transfers, request_user_data)
      push_id == nghq_stream_id_map_search(s.promises, request_user_data)
      control == IF s.role = "CLIENT" THEN NGHQ_CONTROL_CLIENT ELSE NGHQ_CONTROL_SERVER
  IN IF stream_id # NGHQ_STREAM_ID_MAP_NOT_FOUND THEN Ret(s, shutdown)
     ELSE IF push_id = NGHQ_STREAM_ID_MAP_NOT_FOUND THEN Ret(s, "NGHQ_REQUEST_CLOSED")
     ELSE IF nghq_stream_id_map_find(s.transfers, control)
     THEN Ret([s EXCEPT !.transfers[control].send_buf =
                          Append(@, SendBuf("CANCEL_PUSH", push_id, 1, FALSE))],
              "NGHQ_OK")
     ELSE Ret(s, "NGHQ_INTERNAL_ERROR")

\* nghq_stream_ended frees the stream; every caller also takes it out of its table
nghq_stream_ended(s, stream_id) ==
  [s EXCEPT !.transfers = nghq_stream_id_map_remove(@, stream_id)]

\* nghq_req_stream_new: bidi is the id the transport gives to the new stream
nghq_req_stream_new(s, bidi) ==
  IF bidi = NGHQ_STREAM_ID_MAP_NOT_FOUND \/ nghq_stream_id_map_find(s.transfers, bidi)
  THEN [s EXCEPT !.opened = @ \cup ({bidi} \cap BidiIds)]
  ELSE [s EXCEPT !.opened = @ \cup {bidi},
                 !.transfers = nghq_stream_id_map_add(@, bidi, nghq_stream_new(bidi))]

\* len is the length of the request body
nghq_submit_request(s, trailer, len, final, request_user_data, bidi, encoded) ==
  IF s.role # "CLIENT" THEN Ret(s, "NGHQ_CLIENT_ONLY")
  ELSE IF s.mode = "MULTICAST"
  THEN Ret(IF nghq_stream_id_map_find(s.transfers, 4)
           THEN [s EXCEPT !.transfers[4].user_data = request_user_data]
           ELSE s, "NGHQ_OK")
  ELSE IF MaxRequests <= Cardinality(DOMAIN s.transfers \cap (BidiIds \ {0}))
  THEN Ret(s, "NGHQ_TOO_MANY_REQUESTS")
  ELSE LET s1 == nghq_req_stream_new(s, bidi)
       IN IF s1.transfers = s.transfers THEN Ret(s1, "NGHQ_OUT_OF_MEMORY")
          ELSE LET s2 == [s1 EXCEPT !.transfers[bidi].user_data = request_user_data]
                   s3 == nghq_feed_headers(s2, trailer, FALSE, request_user_data,
                                           NGHQ_STREAM_ID_MAP_NOT_FOUND, encoded)
               IN IF s3.rv # "NGHQ_OK" THEN Ret(nghq_stream_ended(s3, bidi), s3.rv)
                  ELSE IF len > 0
                  THEN nghq_feed_payload_data(s3, FALSE, request_user_data)
                  ELSE IF final THEN Ret(nghq_stream_ended(s3, bidi), s3.rv)
                  ELSE s3

(***************************************************************************)
(* Ending streams and the session.                                         *)
(***************************************************************************)
on_request_close(s, user_data) ==
  IF user_data \in UserData
  THEN [s EXCEPT !.closes[user_data] = IF @ < 2 THEN @ + 1 ELSE @]
  ELSE s

\* on_request_close, nghq_stream_ended, and out of the transfers table
nghq_stream_close(s, stream_id) ==
  nghq_stream_ended(on_request_close(s, s.transfers[stream_id].user_data), stream_id)

RECURSIVE CloseAll(_, _)
CloseAll(s, ids) ==
  IF ids = {} THEN s ELSE CloseAll(nghq_stream_close(s, Min(ids)), ids \ {Min(ids)})

\* The loop of nghq_session_close starts behind stream 4, or at the first
\* stream when there is no stream 4.  After the first nghq_stream_close the
\* iterator is asked for the successor of a stream that was freed: it either
\* finds none (do_all FALSE) or goes on through the table (do_all TRUE).
nghq_session_close(s, do_all, uni, encoded) ==
  LET ids == IF nghq_stream_id_map_find(s.transfers, 4)
             THEN {k \in DOMAIN s.transfers : k > 4}
             ELSE DOMAIN s.transfers
      s1 == IF ids = {} THEN s
            ELSE IF do_all THEN CloseAll(s, ids) ELSE nghq_stream_close(s, Min(ids))
      goaway == OwnData(2000)
  IN IF s.mode = "MULTICAST"
     THEN IF s.role # "SERVER" THEN Ret(s1, "NGHQ_OK")
          ELSE IF nghq_stream_id_map_find(s1.transfers, NGHQ_INIT_REQUEST_STREAM_ID)
          THEN LET s2 == nghq_submit_push_promise(
                           s1, s1.transfers[NGHQ_INIT_REQUEST_STREAM_ID].user_data, goaway)
                   s3 == nghq_feed_headers(s2, FALSE, TRUE, goaway, uni, encoded)
               IN Ret(s3, "NGHQ_OK")
          ELSE Ret(s1, "fault")      \* nghq_stream_close of a null stream
     ELSE Ret([s1 EXCEPT !.send_buf = @ + 1], "NGHQ_OK")

\* _clean_up_streams on both tables; no callback is made
nghq_session_free(s) ==
  Ret([s EXCEPT !.transfers = EmptyMap, !.promises = EmptyMap, !.send_buf = 0,
                !.freed = TRUE], "NGHQ_OK")

(***************************************************************************)
(* nghq_session_send.  writes is what the transport takes in the           *)
(* successive calls of ngtcp2_conn_write_stream (number of stream bytes,    *)
(* 0 when it writes no packet, negative when it fails); when writes is     *)
(* used up the transport reports too many bytes in flight.                 *)
(***************************************************************************)
RECURSIVE SumRemaining(_)
SumRemaining(bufs) ==
  IF bufs = <<>> THEN 0 ELSE Head(bufs).remaining + SumRemaining(Tail(bufs))

\* "delete any whole buffers sent": the buffers left and the bytes left over
RECURSIVE PopSent(_, _)
PopSent(bufs, sent) ==
  IF bufs # <<>> /\ sent >= Head(bufs).remaining
  THEN PopSent(Tail(bufs), sent - Head(bufs).remaining)
  ELSE [bufs |-> bufs, sent |-> sent]

\* the streams from "it" on, in table order
From(s, it) == {k \in DOMAIN s.transfers : k >= it}

\* "pack data with next stream buffer(s)": the number of buffers of the queue
\* that go into one write, n of them holding buf_len bytes so far
RECURSIVE PackCount(_, _, _, _)
PackCount(bufs, n, buf_len, max_packet_size) ==
  IF buf_len < max_packet_size - MIN_STREAM_PACKET_OVERHEAD /\ n < Len(bufs)
  THEN PackCount(bufs, n + 1, buf_len + bufs[n + 1].remaining, max_packet_size)
  ELSE n

\* the return of nghq_session_send
SendRet(s, rv) == [Ret(s, rv) EXCEPT !.io.rv = rv]

\* what ngtcp2_conn_write_stream answers when it fails: -1, -2 and -3 stand
\* for NGTCP2_ERR_STREAM_DATA_BLOCKED, NGTCP2_ERR_STREAM_SHUT_WR and
\* NGTCP2_ERR_STREAM_NOT_FOUND, -4 for any other error of the transport
YieldingErrs == {-3, -2, -1}
WriteErrs == YieldingErrs \cup {-4}

\* a send loop that gives up at every failure of the transport
EveryFailureFatal(s, pkt_len) ==
  SendRet([s EXCEPT !.io.err = pkt_len], "NGHQ_TRANSPORT_ERROR")

\* "if (pkt_len < 0)": the three failures that end the call with 0, and the
\* others that end the loop with NGHQ_TRANSPORT_ERROR
WriteStreamFailed(s, pkt_len) ==
  SendRet([s EXCEPT !.io.err = pkt_len],
          IF pkt_len \in YieldingErrs THEN "NGHQ_OK" ELSE "NGHQ_TRANSPORT_ERROR")

RECURSIVE SendLoop(_, _, _)
SendLoop(s, it, writes) ==
  LET ready == {k \in From(s, it) : s.transfers[k].send_buf # <<>>}
  IN IF writes = <<>>
     THEN SendRet([s EXCEPT !.io.limit = TRUE],
                  IF s.rv = "NGHQ_NO_MORE_DATA" THEN "NGHQ_SESSION_BLOCKED" ELSE s.rv)
     ELSE IF ready = {} THEN SendRet(s, s.rv)
     ELSE IF Head(writes) < 0 THEN WriteStreamFailed(s, Head(writes))
     ELSE IF Head(writes) = 0 THEN SendRet(s, "NGHQ_SESSION_BLOCKED")
     ELSE LET k == Min(ready)
              bufs == s.transfers[k].send_buf
              n == PackCount(bufs, 1, Head(bufs).remaining, s.max_packet_size)
              packed == \E i \in 1..n : bufs[i].complete
              buf_len == SumRemaining(SubSeq(bufs, 1, n))
              sent == IF Head(writes) > buf_len THEN buf_len ELSE Head(writes)
              p == PopSent(bufs, sent)
              partial == p.sent > 0
              left == IF partial
                      THEN <<[Head(p.bufs) EXCEPT !.remaining = @ - p.sent,
                                                  !.complete = packed]>> \o Tail(p.bufs)
                      ELSE p.bufs
              last_data == packed /\ ~partial
              s1 == [s EXCEPT !.transfers[k].send_buf = left,
                              !.io.bufs = n, !.io.len = buf_len, !.io.sent = @ + sent]
              s2 == IF last_data
                    THEN [on_request_close(s1, s1.transfers[k].user_data)
                            EXCEPT !.transfers[k].send_state = "DONE"]
                    ELSE s1
          IN SendLoop(Ret(s2, "NGHQ_OK"), k, Tail(writes))

nghq_session_send(s, blocked, writes) ==
  LET s0 == [s EXCEPT !.io = [NoIo EXCEPT !.call = TRUE]]
  IN IF blocked THEN SendRet([s0 EXCEPT !.io.limit = TRUE], "NGHQ_SESSION_BLOCKED")
     ELSE LET s1 == Ret([s0 EXCEPT !.send_buf = 0],
                        IF s.send_buf > 0 THEN "NGHQ_OK" ELSE "NGHQ_NO_MORE_DATA")
          IN IF ~nghq_stream_id_map_find(s1.transfers, 0)
             THEN Ret(s1, "fault")      \* it->send_buf of a null stream
             ELSE SendLoop(s1, 0, writes)

(***************************************************************************)
(* Callbacks.  Every callback of a call is appended to st.ev.              *)
(***************************************************************************)
Event(cb, off, len, tags, end, trailers) ==
  [cb |-> cb, off |-> off, len |-> len, tags |-> tags, end |-> end, trailers |-> trailers]

on_data_recv(st, end, tags, len, off) ==
  [st EXCEPT !.ev = Append(@, Event("data", off, len, tags, end, FALSE))]

on_headers(st, end, trailers) ==
  [st EXCEPT !.ev = Append(@, Event("headers", 0, 0, <<>>, end, trailers))]

(***************************************************************************)
(* _nghq_stream_headers_frame: the receive half of the state machine for   *)
(* a complete HEADERS frame, then on_begin_headers / on_headers.           *)
(***************************************************************************)
\* a receive state machine that takes every HEADERS frame for the first one
HeadersAlwaysFirst(s) == IF s = "DONE" THEN s ELSE "HDRS"

HeadersRecvState(s) ==
  CASE s = "OPEN" -> "HDRS"
    [] s = "HDRS" -> "HDRS"
    [] s = "BODY" -> "TRAILERS"
    [] s = "TRAILERS" -> "TRAILERS"
    [] OTHER -> s

_nghq_stream_headers_frame(st, frame) ==
  IF st.recv_state = "DONE"
  THEN [st EXCEPT !.rv = "NGHQ_REQUEST_CLOSED"]
  ELSE LET ns == HeadersRecvState(st.recv_state)
           s1 == [st EXCEPT !.recv_state = ns]
       IN on_headers(s1, frame.complete, StateRank(ns) > StateRank("HDRS"))

\* parse_push_promise_frame: every header block decodes to some header
parse_push_promise_frame(frame) ==
  [push_id |-> WireByte(frame.got[FrameHdrLen + 1]),
   goaway |-> WireByte(frame.got[FrameHdrLen + 2]) = 1]

\* an entry of the session's log: the function or callback called, the
\* request user_data it was given and the push id that user_data stands for
Cb(cb, user_data, push_id) == [cb |-> cb, user_data |-> user_data, push_id |-> push_id]

\* nghq_io_buf_clear(&session->recv_buf->next_buf): the packet being read
\* stays at the head of the queue
\* a goaway that leaves the queue as it is
KeepNext(s) == s

ClearNext(s) ==
  IF s.recv_buf = <<>> THEN Ret(s, "fault") ELSE [s EXCEPT !.recv_buf = <<Head(@)>>]

_nghq_stream_push_promise_frame(st, frame) ==
  LET p == parse_push_promise_frame(frame)
      \* the log tells what the frame was parsed to
      s == [st.sess EXCEPT !.log = Append(@, Cb(IF p.goaway THEN "push_promise_goaway"
                                                ELSE "push_promise_request",
                                                0, p.push_id))]
      new == [nghq_stream_init(3000 + s.recv_promises) EXCEPT
                !.push_id = p.push_id, !.recv_state = "HDRS"]
  IN IF st.recv_state = "DONE" THEN [st EXCEPT !.rv = "NGHQ_REQUEST_CLOSED"]
     ELSE IF p.push_id > s.max_push_promise
     THEN [st EXCEPT !.rv = "NGHQ_HTTP_MALFORMED_FRAME", !.sess = s]
     ELSE IF s.role = "CLIENT" /\ s.mode = "MULTICAST" /\ p.goaway
     THEN \* "multicast goaway detected - close the session"
          LET c == nghq_session_close(
                     [s EXCEPT !.log = Append(@, Cb("nghq_session_close", 0, -1))],
                     st.do_all, NGHQ_STREAM_ID_MAP_NOT_FOUND, TRUE)
              f == ClearNext(Ret(c, "NGHQ_OK"))
          IN IF c.rv = "fault" \/ f.rv = "fault"
             THEN Crash([st EXCEPT !.sess = Ret(f, "NGHQ_OK")])
             ELSE [st EXCEPT !.sess = f]
     ELSE [st EXCEPT
             !.sess = [s EXCEPT
                         !.promises = nghq_stream_id_map_add(@, p.push_id, new),
                         !.recv_promises = @ + 1,
                         !.log = @ \o <<Cb("on_begin_promise", new.user_data, p.push_id),
                                        Cb("on_headers", new.user_data, p.push_id)>>]]

\* the switch on frame_type of a frame whose gap list is empty
DispatchFrame(st, frame) ==
  LET s1 == [st EXCEPT !.ev = Append(@, Event("dispatch", frame.offset, frame.buf_len,
                                               <<>>, frame.gaps = <<>>, FALSE))]
  IN CASE frame.frame_type = NGHQ_FRAME_TYPE_DATA -> s1
       [] frame.frame_type = NGHQ_FRAME_TYPE_HEADERS -> _nghq_stream_headers_frame(s1, frame)
       [] frame.frame_type = NGHQ_FRAME_TYPE_PUSH_PROMISE ->
            _nghq_stream_push_promise_frame(s1, frame)
       [] OTHER -> [s1 EXCEPT !.rv = "NGHQ_INTERNAL_ERROR"]


(***************************************************************************)
(* nghq_recv_stream_data                                                   *)
(***************************************************************************)
\* "Add new frames": the while loop over _nghq_stream_recv_data_at
RECURSIVE ExtractFrames(_, _)
ExtractFrames(st, fuel) ==
  LET v == _nghq_stream_recv_data_at(st.stream_id, st.recv_buf, st.next_recv_offset)
  IN IF ~v.valid \/ fuel = 0 THEN st
     ELSE LET s1 == [st EXCEPT !.frame_data = v]
              h == parse_frame_header(v)
          IN IF h.size > 0
             THEN Once(LAMBDA s2 : ExtractFrames(s2, fuel - 1),
                       [_nghq_stream_frame_add(s1, h.type, h.size, v.offset, v)
                          EXCEPT !.next_recv_offset = v.offset + h.size])
             ELSE s1

\* "if (stream->recv_state == STATE_HDRS) stream->recv_state = STATE_BODY"
DataRecvState(s) == IF s = "HDRS" THEN "BODY" ELSE s

\* the body of "if (frame_type == DATA)": state change and on_data_recv
DeliverData(st, frame, view, used) ==
  LET s1 == [st EXCEPT !.recv_state = DataRecvState(@)]
      hdr_bytes == IF view.offset < frame.end_header_offset
                   THEN frame.end_header_offset - view.offset ELSE 0
      data_used == Wrap(used - hdr_bytes)
      data_offset == Wrap(view.offset + hdr_bytes - frame.data_offset_adjust)
      tags == IF Huge(data_used) THEN <<>> ELSE Bytes(view.buf, hdr_bytes, data_used)
  IN on_data_recv(s1, frame.complete, tags, data_used, data_offset)

\* the inner for loop over the active frames, for the buffer range (off, datalen)
RECURSIVE FrameLoop(_, _, _, _, _, _, _)
FrameLoop(st, j, off, datalen, block, modified, fuel) ==
  IF fuel = 0 THEN [st |-> [st EXCEPT !.fault = "spin"], modified |-> modified]
  ELSE IF j > Len(st.active_frames) THEN [st |-> st, modified |-> modified]
  ELSE
    LET f == st.active_frames[j]
        isData == f.frame_type = NGHQ_FRAME_TYPE_DATA
        c == _frame_contains_stream_range(f, off, datalen)
        found == _nghq_stream_recv_data_at(st.stream_id, st.recv_buf, c.frame_data_offset)
        \* the return value is not looked at: frame_data keeps its old content
        view == IF found.valid THEN found ELSE st.frame_data
        inFrame == view.valid /\ view.offset >= f.offset /\ view.offset < f.offset + f.buf_len
        a == _frame_add_data(f, view)
        s1 == [st EXCEPT !.active_frames[j] = a.frame, !.frame_data = view]
        s2 == IF isData THEN DeliverData(s1, a.frame, view, a.used) ELSE s1
        s3 == _nghq_stream_recv_pop_data(s2, view.offset, a.used)
        \* the frame and the state after the "contains" block
        Rest(sx, mod) ==
          LET g == sx.active_frames[j]
          IN IF (~block \/ isData) /\ g.gaps = <<>>
             THEN Once(LAMBDA s4 :
                         IF s4.rv # "NGHQ_OK" THEN [st |-> s4, modified |-> mod]
                         ELSE FrameLoop(s4, j, off, datalen, block, mod, fuel - 1),
                       DispatchFrame([sx EXCEPT !.active_frames = RemoveAt(@, j)], g))
             ELSE FrameLoop(sx, j + 1, off, datalen, block \/ ~isData, mod, fuel - 1)
    IN IF ~c.hit THEN Rest(st, modified)
       ELSE IF ~inFrame THEN [st |-> Crash(st), modified |-> modified]
       ELSE IF isData /\ st.recv_state = "OPEN"
       THEN \* "continue" without moving pf: the same frame again, for ever
            [st |-> [s1 EXCEPT !.fault = "hang"], modified |-> modified]
       ELSE Once(LAMBDA popped :
                   IF popped.fault # "none" THEN [st |-> popped, modified |-> TRUE]
                   ELSE Rest(popped, TRUE),
                 s3)

IndexOfId(list, id) ==
  LET idx == {i \in 1..Len(list) : list[i].id = id}
  IN IF idx = {} THEN 0 ELSE Min(idx)

\* "Populate the active frames": the outer for loop.  pb is the link behind
\* the buffer with id pred (the list head for pred = 0).
RECURSIVE PopulateFrames(_, _, _)
PopulateFrames(st, pred, fuel) ==
  IF fuel = 0 THEN [st EXCEPT !.fault = "spin"]
  ELSE IF pred # 0 /\ IndexOfId(st.recv_buf, pred) = 0
  THEN Crash(st)     \* pb points into a buffer that was freed
  ELSE
    LET i == IF pred = 0 THEN 1 ELSE IndexOfId(st.recv_buf, pred) + 1
    IN IF i > Len(st.recv_buf) THEN st
       ELSE LET b == st.recv_buf[i]
                off == Wrap(b.offset + b.sp)
            IN IF off > st.next_recv_offset THEN st
               ELSE Once(LAMBDA r :
                           IF r.st.fault # "none" \/ r.st.rv # "NGHQ_OK" THEN r.st
                           ELSE PopulateFrames(r.st, IF r.modified THEN pred ELSE b.id,
                                               fuel - 1),
                         FrameLoop(st, 1, off, b.remaining, FALSE, FALSE, fuel))

\* "Always add frames for stream 0 from start of first available buffer"
FromFirstBuffer(s1) ==
  LET b == s1.recv_buf[1]
  IN IF s1.stream_id = NGHQ_PUSH_PROMISE_STREAM /\ s1.recv_buf # <<>>
     THEN [s1 EXCEPT !.next_recv_offset = Wrap(b.offset + Len(b.buf) - b.remaining)]
     ELSE s1

nghq_recv_stream_data(st, data, off, end_of_stream) ==
  Once(LAMBDA s1 :
         IF s1.fault # "none" THEN s1
         ELSE Once(LAMBDA s2 : PopulateFrames(s2, 0, Fuel),
                   ExtractFrames(FromFirstBuffer(s1), Fuel)),
       _nghq_insert_recv_stream_data(st, data, off, end_of_stream))


(***************************************************************************)
(* What the application saw.  BodyIndex(tag) is the position of a stream   *)
(* byte in the HTTP body (the number of DATA payload bytes before it), or  *)
(* -1 when the byte is not a DATA payload byte.                            *)
(***************************************************************************)
RECURSIVE BodyMapFrom(_, _)
BodyMapFrom(pos, n) ==
  IF pos > Len(wire) THEN <<>>
  ELSE IF pos + 1 > Len(wire) THEN <<-1>>
  ELSE LET t == wire[pos]
           l == wire[pos + 1]
           isData == t = NGHQ_FRAME_TYPE_DATA
       IN <<-1, -1>> \o [k \in 1..l |-> IF isData THEN n + k - 1 ELSE -1]
            \o BodyMapFrom(pos + FrameHdrLen + l, IF isData THEN n + l ELSE n)

BodyIndex(tag) == IF tag < 0 THEN -1 ELSE BodyMapFrom(1, 0)[tag + 1]

Range(seq) == {seq[k] : k \in 1..Len(seq)}

\* the frames the peer wrote, and the offsets of its HEADERS frames
RECURSIVE FramesFrom(_)
FramesFrom(pos) ==
  IF pos + 1 > Len(wire) THEN {}
  ELSE {[off |-> pos - 1, type |-> wire[pos], len |-> wire[pos + 1]]}
         \cup FramesFrom(pos + FrameHdrLen + wire[pos + 1])

HeadersOffsets == {f.off : f \in {g \in FramesFrom(1) : g.type = NGHQ_FRAME_TYPE_HEADERS}}

NoHist ==
  [n |-> 0, seen |-> {}, ndata |-> 0, lastend |-> FALSE, hdrs |-> FALSE, body |-> {}, dup |-> FALSE, regress |-> FALSE, misoff |-> FALSE,
   maxend |-> 0, dataBeforeHdrs |-> FALSE, plainAfterBody |-> FALSE,
   dispatched |-> {}, redispatch |-> FALSE, gapDispatch |-> FALSE, disorder |-> FALSE,
   trailers |-> FALSE, dataAfterTrailers |-> FALSE,
   fin |-> FALSE]      \* a range was inserted on its own with the end-of-stream mark

HistStep(h, e) ==
  CASE e.cb = "data" ->
         [h EXCEPT !.dup = @ \/ Range(e.tags) \cap h.body # {}
                            \/ Cardinality(Range(e.tags)) < Len(e.tags),
                   !.regress = @ \/ e.off < h.maxend,
                   !.misoff = @ \/ Huge(e.len)
                               \/ \E k \in 1..Len(e.tags) : BodyIndex(e.tags[k]) # e.off + k - 1,
                   !.maxend = IF ~Huge(e.len) /\ e.off + e.len > @ THEN e.off + e.len ELSE @,
                   !.dataBeforeHdrs = @ \/ ~h.hdrs,
                   !.dataAfterTrailers = @ \/ h.trailers,
                   !.ndata = @ + 1,
                   !.lastend = e.end,
                   !.body = @ \cup (Range(e.tags) \ {-1})]
    [] e.cb = "headers" ->
         [h EXCEPT !.hdrs = TRUE,
                   !.trailers = @ \/ e.trailers,
                   !.plainAfterBody = @ \/ (h.body # {} /\ ~e.trailers)]
    [] OTHER ->
         [h EXCEPT !.redispatch = @ \/ e.off \in h.dispatched,
                   !.dispatched = @ \cup {e.off},
                   !.disorder = @ \/ (e.off \in HeadersOffsets /\
                                     \E o \in HeadersOffsets : o < e.off /\ o \notin h.dispatched),
                   !.gapDispatch = @ \/ ~e.end]

RECURSIVE HistFold(_, _)
HistFold(h, ev) == IF ev = <<>> THEN h ELSE HistFold(HistStep(h, Head(ev)), Tail(ev))

(***************************************************************************)
(* The receive state machine of one stream.                                *)
(***************************************************************************)
InitRecv ==
  /\ wire \in {WireOf(l) : l \in Layouts}
  /\ recv_buf = <<>>
  /\ active_frames = <<>>
  /\ next_recv_offset = 0
  /\ data_frames_total = 0
  /\ recv_state = "OPEN"
  /\ fault = "none"
  /\ calls = <<>>
  /\ hist = NoHist
  /\ plan = <<>>
  /\ sess = InitSess

CallState(u) ==
  [recv_buf |-> recv_buf, active_frames |-> active_frames,
   next_recv_offset |-> next_recv_offset, data_frames_total |-> data_frames_total,
   recv_state |-> recv_state, fault |-> "none", rv |-> "NGHQ_OK", ev |-> <<>>,
   frame_data |-> NoView, nid |-> Len(recv_buf) + 1, u |-> u,
   \* the stream is a request stream, not the push promise stream
   stream_id |-> NGHQ_PUSH_PROMISE_STREAM + 4, sess |-> sess, do_all |-> FALSE]

\* buffers are told apart by position between calls
Renumber(list) == [i \in 1..Len(list) |-> [list[i] EXCEPT !.id = i]]

Returned(r, data) ==
  /\ recv_buf' = Renumber(r.recv_buf)
  /\ active_frames' = r.active_frames
  /\ next_recv_offset' = r.next_recv_offset
  /\ data_frames_total' = r.data_frames_total
  /\ recv_state' = r.recv_state
  /\ fault' = r.fault
  /\ calls' = r.ev
  /\ hist' = [HistFold(hist, r.ev) EXCEPT !.n = @ + 1, !.seen = @ \cup Range(data)]

StreamData(off, len) == [k \in 1..len |-> off + k - 1]

\* The transport hands over the stream bytes [off, off+len), possibly again.
RecvStreamData(off, len, eos, u) ==
  /\ fault = "none"
  /\ hist.n < MaxCalls
  /\ \E r \in {nghq_recv_stream_data(CallState(u), StreamData(off, len), off, eos)} :
        Returned(r, StreamData(off, len))
  /\ UNCHANGED <<wire, plan, sess>>

NextRecv ==
  \E off \in 0..(Len(wire) - 1) : \E len \in 1..(Len(wire) - off) :
    \E eos \in {FALSE, off + len = Len(wire)} : \E u \in BOOLEAN :
      RecvStreamData(off, len, eos, u)

SpecRecv == InitRecv /\ [][NextRecv]_vars

(***************************************************************************)
(* The receive path of a multicast client: nghq_session_recv reads the     *)
(* packets the socket has, then hands them to the transport one by one;    *)
(* the transport passes the STREAM frame of a packet, a range of the push  *)
(* promise stream, to nghq_recv_stream_data.                               *)
(***************************************************************************)
PushLayouts ==
  { <<PFrame(0, g)>> : g \in BOOLEAN } \cup
  { <<PFrame(0, g), PFrame(1, h)>> : g, h \in BOOLEAN }

Pkt(off, len, eos) == [off |-> off, len |-> len, eos |-> eos]

\* the second loop of nghq_session_recv: ngtcp2_conn_read_pkt on the head of
\* the queue, which is popped afterwards
RECURSIVE ReadPkts(_)
ReadPkts(st) ==
  IF st.sess.recv_buf = <<>> THEN st
  ELSE LET pkt == Head(st.sess.recv_buf)
       IN Once(LAMBDA r :
                 LET popped == [r EXCEPT !.sess.recv_buf = Tail(@)]
                 IN IF r.fault # "none" THEN r
                    ELSE IF r.rv # "NGHQ_OK" THEN [popped EXCEPT !.rv = "NGHQ_ERROR"]
                    ELSE ReadPkts(popped),
               nghq_recv_stream_data(
                 [st EXCEPT !.rv = "NGHQ_OK",
                            !.sess.log = Append(@, Cb("ngtcp2_conn_read_pkt", 0, -1))],
                 StreamData(pkt.off, pkt.len), pkt.off, pkt.eos))

\* pkts is what recv_callback gives before it answers socket_rv, which is
\* "0" for no more data or the name of an error
nghq_session_recv(st, pkts, socket_rv) ==
  LET s1 == [st EXCEPT !.sess.recv_buf = @ \o pkts,
                       !.sess.log = Append(@, Cb("nghq_session_recv", 0, -1))]
  IN IF socket_rv = "NGHQ_EOF" THEN [s1 EXCEPT !.rv = "NGHQ_SESSION_CLOSED"]
     ELSE IF socket_rv # "0" THEN [s1 EXCEPT !.rv = "NGHQ_ERROR"]
     ELSE IF s1.sess.recv_buf = <<>> THEN [s1 EXCEPT !.rv = "NGHQ_NO_MORE_DATA"]
     ELSE ReadPkts(s1)

\* a multicast client, with or without a stream the server has pushed
InitPush ==
  /\ wire \in {WireOf(l) : l \in PushLayouts}
  /\ recv_buf = <<>>
  /\ active_frames = <<>>
  /\ next_recv_offset = 0
  /\ data_frames_total = 0
  /\ recv_state = "OPEN"
  /\ fault = "none"
  /\ calls = <<>>
  /\ hist = NoHist
  /\ plan = <<>>
  /\ \E pushed \in SUBSET UniIds :
        LET c == nghq_session_new("CLIENT", "MULTICAST", NGHQ_PUSH_PROMISE_STREAM,
                                  MIN_STREAM_PACKET_OVERHEAD + MaxPack)
        IN sess = [c EXCEPT !.transfers =
                     [k \in DOMAIN @ \cup pushed |->
                        IF k \in pushed THEN nghq_stream_new(k) ELSE @[k]]]

RECURSIVE PktData(_)
PktData(pkts) ==
  IF pkts = <<>> THEN <<>>
  ELSE StreamData(Head(pkts).off, Head(pkts).len) \o PktData(Tail(pkts))

SessionRecv(pkts, socket_rv, do_all, u) ==
  /\ fault = "none"
  /\ hist.n < MaxRecvs
  /\ \E r \in {nghq_session_recv([CallState(u) EXCEPT
                                       !.stream_id = NGHQ_PUSH_PROMISE_STREAM,
                                       !.do_all = do_all],
                                    pkts, socket_rv)} :
        /\ Returned(r, PktData(pkts))
        /\ sess' = Ret(r.sess, "NGHQ_OK")
  /\ UNCHANGED <<wire, plan>>

\* The sender cuts the stream where a frame or the payload of a frame begins;
\* the stream of push promises has no end.
Cuts == {Len(wire)} \cup {f.off : f \in FramesFrom(1)}
                   \cup {f.off + FrameHdrLen : f \in FramesFrom(1)}
Pkts == {Pkt(r[1], r[2] - r[1], FALSE) : r \in {c \in Cuts \X Cuts : c[1] < c[2]}}

\* how the iterator goes on behind a freed stream matters when
\* nghq_session_close has more than one stream to close
Walks == IF Cardinality({k \in DOMAIN sess.transfers : k > 4}) > 1 THEN BOOLEAN ELSE {FALSE}

NextPush ==
  \/ \E n \in 1..MaxPkts : \E pkts \in [1..n -> Pkts] :
        \E do_all \in Walks, u \in BOOLEAN : SessionRecv(pkts, "0", do_all, u)
  \/ \E socket_rv \in {"NGHQ_EOF", "NGHQ_ERROR"} : SessionRecv(<<>>, socket_rv, FALSE, FALSE)

SpecPush == InitPush /\ [][NextPush]_vars


(***************************************************************************)
(* C1.  Between calls the receive buffer list is sorted by offset and no   *)
(* two neighbouring buffers overlap or touch: each buffer ends strictly    *)
(* before the next one starts.                                             *)
(***************************************************************************)
BufEnd(b) == b.offset + Len(b.buf)

C1_ListSortedDisjoint ==
  fault = "none" =>
    \A i \in 1..(Len(recv_buf) - 1) : BufEnd(recv_buf[i]) < recv_buf[i + 1].offset

(***************************************************************************)
(* C2.  For every frame under reassembly, between calls, the lengths of    *)
(* its gaps and the number of bytes already filled add up to the frame     *)
(* length, no gap covers a filled byte, no frame was handed to its handler *)
(* with a gap left, and no frame was handed over twice.                    *)
(***************************************************************************)
GapCovers(f, k) == \E g \in 1..Len(f.gaps) : f.gaps[g].begin < k /\ k <= f.gaps[g].end

C2_GapAccounting ==
  fault = "none" =>
    /\ \A j \in 1..Len(active_frames) :
         LET f == active_frames[j]
         IN /\ GapTotal(f.gaps) + Cardinality(Filled(f)) = f.buf_len
            /\ \A k \in Filled(f) : ~GapCovers(f, k)
    /\ ~hist.gapDispatch
    /\ ~hist.redispatch

(***************************************************************************)
(* C3.  Over all calls so far, the body offsets given to on_data_recv      *)
(* never go back, every byte given is the DATA payload byte that belongs   *)
(* at the body offset it is given with, and no body byte is given twice.   *)
(***************************************************************************)
C3_BodyDelivery == ~hist.regress /\ ~hist.misoff /\ ~hist.dup

(***************************************************************************)
(* Stage 1 on its own: _nghq_insert_recv_stream_data applied to ranges of  *)
(* a stream whose bytes are never consumed.                                *)
(***************************************************************************)
InitInsert ==
  /\ wire \in {WireOf(<<HFrame(h), DFrame(1)>>) : h \in 1..MaxHdrPayload}
  /\ recv_buf = <<>>
  /\ active_frames = <<>>
  /\ next_recv_offset = 0
  /\ data_frames_total = 0
  /\ recv_state = "OPEN"
  /\ fault = "none"
  /\ calls = <<>>
  /\ hist = NoHist
  /\ plan = <<>>
  /\ sess = InitSess

InsertRange(off, len, eos, u) ==
  /\ fault = "none"
  /\ hist.n < MaxCalls
  /\ \E r \in {_nghq_insert_recv_stream_data(CallState(u), StreamData(off, len), off, eos)} :
        /\ recv_buf' = Renumber(r.recv_buf)
        /\ fault' = r.fault
        /\ hist' = [hist EXCEPT !.n = @ + 1, !.seen = @ \cup Range(StreamData(off, len)),
                                 !.fin = @ \/ eos]
  /\ UNCHANGED <<wire, active_frames, next_recv_offset, data_frames_total, recv_state,
                 calls, plan, sess>>

NextInsert ==
  \E off \in 0..(Len(wire) - 1) : \E len \in 1..(Len(wire) - off) :
    \E eos \in {FALSE, off + len = Len(wire)} : \E u \in BOOLEAN :
      InsertRange(off, len, eos, u)

SpecInsert == InitInsert /\ [][NextInsert]_vars

(***************************************************************************)
(* C9.  Whatever ranges were inserted, in whatever order and however often,*)
(* the buffer list is the one that inserting their union once gives: one   *)
(* buffer per maximal run of received offsets, in offset order, holding    *)
(* exactly the bytes of that run.                                          *)
(***************************************************************************)
Spans(S) ==
  {<<a, StreamData(a, b - a)>> :
     <<a, b>> \in {p \in (0..Len(wire)) \X (0..Len(wire)) :
                     /\ p[1] < p[2]
                     /\ \A x \in p[1]..(p[2] - 1) : x \in S
                     /\ (p[1] - 1) \notin S
                     /\ p[2] \notin S}}

C9_InsertIsUnion ==
  /\ fault = "none"
  /\ {<<recv_buf[i].offset, recv_buf[i].buf>> : i \in 1..Len(recv_buf)} = Spans(hist.seen)
  /\ \A i \in 1..(Len(recv_buf) - 1) : recv_buf[i].offset < recv_buf[i + 1].offset

TwoRanges(h, d, p, reversed) ==
  LET base == IF h = 0 THEN 0 ELSE FrameHdrLen + h
      size == FrameHdrLen + d
      first == <<base, p, FALSE>>
      second == <<base + p, size - p, TRUE>>
  IN (IF h = 0 THEN <<>> ELSE <<<<0, base, FALSE>>>>)
       \o (IF reversed THEN <<second, first>> ELSE <<first, second>>)

InitTwoRanges ==
  \E h \in 0..MaxHdrPayload : \E d \in 1..MaxPayload :
    \E p \in 1..(FrameHdrLen + d - 1) : \E reversed \in BOOLEAN :
      /\ wire = WireOf(IF h = 0 THEN <<DFrame(d)>> ELSE <<HFrame(h), DFrame(d)>>)
      /\ plan = TwoRanges(h, d, p, reversed)
      /\ recv_buf = <<>>
      /\ active_frames = <<>>
      /\ next_recv_offset = 0
      /\ data_frames_total = 0
      /\ recv_state = "OPEN"
      /\ fault = "none"
      /\ calls = <<>>
      /\ hist = NoHist
      /\ sess = InitSess

DeliverNext(u) ==
  /\ fault = "none"
  /\ plan # <<>>
  /\ LET r == Head(plan)
     IN \E got \in {nghq_recv_stream_data(CallState(u), StreamData(r[1], r[2]), r[1], r[3])} :
          Returned(got, StreamData(r[1], r[2]))
  /\ plan' = Tail(plan)
  /\ UNCHANGED <<wire, sess>>

NextTwoRanges == \E u \in BOOLEAN : DeliverNext(u)

SpecTwoRanges == InitTwoRanges /\ [][NextTwoRanges]_vars

(***************************************************************************)
(* C8.  In order or reversed, the two ranges of the DATA frame give the    *)
(* application the same thing: every call returns, nothing of the body is  *)
(* passed on while a range is still outstanding, and once both are in      *)
(* there was exactly one on_data_recv, at body offset 0, with the whole    *)
(* payload and the end-of-data flag.                                       *)
(***************************************************************************)
Payload == {t \in 0..(Len(wire) - 1) : BodyIndex(t) >= 0}

C8_TwoRangesOneDelivery ==
  /\ fault = "none"
  /\ plan # <<>> => hist.ndata = 0
  /\ plan = <<>> => /\ hist.ndata = 1
                    /\ hist.body = Payload
                    /\ ~hist.misoff
                    /\ hist.lastend

\* C11: HEADERS frames are dispatched in stream order (none is dispatched
\* while a HEADERS frame before it on the stream is still to be dispatched),
\* and the bytes of a DATA frame are passed on, not held, whatever HEADERS
\* frame before or behind it is incomplete: no call stays in the loop over the
\* active frames with a DATA frame it does not pass on.
C11_FrameOrdering ==
  /\ ~hist.disorder
  /\ fault # "hang"

\* C13: once on_data_recv has been called the stream's recv_state is past HDRS,
\* and on_data_recv is never called after trailers were delivered (recv_state
\* TRAILERS): DATA bytes met in that state are refused.
C13_NoDataAfterTrailers ==
  /\ hist.ndata > 0 => recv_state \in {"BODY", "TRAILERS", "DONE"}
  /\ ~hist.dataAfterTrailers

(***************************************************************************)
(* The session state machine.                                              *)
(***************************************************************************)
InitSession ==
  /\ sess \in {nghq_session_new(role, mode, bidi, MIN_STREAM_PACKET_OVERHEAD + MaxPack) :
                 role \in {"CLIENT", "SERVER"}, mode \in {"UNICAST", "MULTICAST"},
                 bidi \in BidiIds \ {0}}
  /\ wire = <<>>
  /\ recv_buf = <<>>
  /\ active_frames = <<>>
  /\ next_recv_offset = 0
  /\ data_frames_total = 0
  /\ recv_state = "OPEN"
  /\ fault = "none"
  /\ calls = <<>>
  /\ hist = NoHist
  /\ plan = <<>>

\* the session after a call that came back as r (or did not come back); the
\* return value is not part of the session
After(r) ==
  /\ sess' = Ret(r, "NGHQ_OK")
  /\ fault' = IF r.rv = "fault" THEN "crash" ELSE IF r.rv = "hang" THEN "hang" ELSE "none"
  /\ UNCHANGED <<wire, recv_buf, active_frames, next_recv_offset, data_frames_total,
                 recv_state, calls, hist, plan>>

\* the same, what the call did with the transport being left out
Called(r) == After([r EXCEPT !.io = NoIo])

Usable == fault = "none" /\ ~sess.freed
RoomToSend == \A k \in DOMAIN sess.transfers : Len(sess.transfers[k].send_buf) < MaxSendBufs
PushArgs == (0..MaxPushArg) \cup {SizeMod - 1}
\* the answers of the transport in one call: every write but the last takes
\* some bytes, the last may take none or fail
Writes ==
  {w \in UNION {[1..n -> (0..(MaxSendBufs + 1)) \cup WriteErrs] : n \in 0..MaxWrites} :
     \A i \in 1..(Len(w) - 1) : w[i] > 0}

SubmitRequest(trailer, len, final, user_data, bidi, encoded) ==
  /\ Usable
  /\ user_data \notin sess.submitted
  /\ LET r == nghq_submit_request(sess, trailer, len, final, user_data, bidi, encoded)
     IN Called(IF r.rv = "NGHQ_OK" THEN [r EXCEPT !.submitted = @ \cup {user_data}] ELSE r)

SubmitPushPromise(init_user_data, promised_user_data) ==
  /\ Usable /\ RoomToSend
  /\ sess.next_push_promise < MaxPromises
  /\ Called(nghq_submit_push_promise(sess, init_user_data, promised_user_data))

SetMaxPromises(max_push) ==
  /\ Usable /\ RoomToSend
  /\ Called(nghq_set_max_promises(sess, max_push))

RecvMaxPushId(max_push_id) ==
  /\ Usable
  /\ Called(_nghq_stream_max_push_id_frame(sess, max_push_id))

FeedHeaders(trailer, final, user_data, uni, encoded) ==
  /\ Usable /\ RoomToSend
  /\ Called(nghq_feed_headers(sess, trailer, final, user_data, uni, encoded))

FeedPayloadData(final, user_data) ==
  /\ Usable /\ RoomToSend
  /\ Called(nghq_feed_payload_data(sess, final, user_data))

SessionSend(blocked, writes) ==
  /\ Usable
  /\ Called(nghq_session_send(sess, blocked, writes))

\* the transport reports that a stream was closed
StreamClose(stream_id) ==
  /\ Usable
  /\ Called(Ret(nghq_stream_close(sess, stream_id), "NGHQ_OK"))

SessionClose(do_all, uni, encoded) ==
  /\ Usable /\ RoomToSend
  /\ sess.send_buf < MaxSendBufs
  /\ Called(nghq_session_close(sess, do_all, uni, encoded))

SessionFree ==
  /\ Usable
  /\ Called(nghq_session_free(sess))

\* a complete HEADERS frame of a stream reaches _nghq_stream_headers_frame
RecvHeadersFrame(stream_id) ==
  /\ Usable
  /\ Called(IF sess.transfers[stream_id].recv_state = "DONE"
            THEN Ret(sess, "NGHQ_REQUEST_CLOSED")
            ELSE Ret([sess EXCEPT !.transfers[stream_id].recv_state = HeadersRecvState(@)],
                     "NGHQ_OK"))

\* bytes of a DATA frame of a stream reach the populate loop
RecvDataFrame(stream_id) ==
  /\ Usable
  /\ Called(IF sess.transfers[stream_id].recv_state = "OPEN"
            THEN Ret(sess, "hang")
            ELSE Ret([sess EXCEPT !.transfers[stream_id].recv_state = DataRecvState(@)],
                     "NGHQ_OK"))

\* the streams the transport knows: those it gave an id to
PeerStreams == DOMAIN sess.transfers \cap sess.opened

\* what ngtcp2_conn_open_uni_stream answers: an id it has not given out yet,
\* or a refusal once it has none left
NewUni ==
  IF UniIds \ sess.opened = {} THEN {NGHQ_STREAM_ID_MAP_NOT_FOUND} ELSE UniIds \ sess.opened

NextSession ==
  \/ \E trailer \in BOOLEAN, len \in 0..1, final \in BOOLEAN, d \in UserData,
        bidi \in BidiIds \ sess.opened, encoded \in BOOLEAN :
          SubmitRequest(trailer, len, final, d, bidi, encoded)
  \/ \E k \in DOMAIN sess.transfers, d \in UserData :
        SubmitPushPromise(sess.transfers[k].user_data, d)
  \/ \E max_push \in PushArgs : SetMaxPromises(max_push)
  \/ \E max_push_id \in PushArgs : RecvMaxPushId(max_push_id)
  \/ \E trailer \in BOOLEAN, final \in BOOLEAN, d \in UserData, uni \in NewUni,
        encoded \in BOOLEAN : FeedHeaders(trailer, final, d, uni, encoded)
  \/ \E final \in BOOLEAN, d \in UserData : FeedPayloadData(final, d)
  \/ \E writes \in Writes : SessionSend(FALSE, writes)
  \/ SessionSend(TRUE, <<>>)
  \/ \E k \in PeerStreams : StreamClose(k)
  \/ \E do_all \in BOOLEAN, uni \in NewUni, encoded \in BOOLEAN :
        SessionClose(do_all, uni, encoded)
  \/ SessionFree
  \/ \E k \in PeerStreams : RecvHeadersFrame(k)
  \/ \E k \in PeerStreams : RecvDataFrame(k)

SpecSess == InitSession /\ [][NextSession]_vars

(***************************************************************************)
(* The send path of a unicast client, with what nghq_session_send passes   *)
(* to the transport and what it returns kept in sess.io.                   *)
(***************************************************************************)
InitSend ==
  /\ sess \in {nghq_session_new("CLIENT", "UNICAST", 4, max_packet_size) :
                 max_packet_size \in PacketSizes}
  /\ wire = <<>>
  /\ recv_buf = <<>>
  /\ active_frames = <<>>
  /\ next_recv_offset = 0
  /\ data_frames_total = 0
  /\ recv_state = "OPEN"
  /\ fault = "none"
  /\ calls = <<>>
  /\ hist = NoHist
  /\ plan = <<>>

SessionSendTraced(blocked, writes) ==
  /\ Usable
  /\ After(nghq_session_send(sess, blocked, writes))

NextSend ==
  \/ \E trailer \in BOOLEAN, len \in 0..1, final \in BOOLEAN, d \in UserData,
        bidi \in BidiIds \ sess.opened, encoded \in BOOLEAN :
          SubmitRequest(trailer, len, final, d, bidi, encoded)
  \/ \E trailer \in BOOLEAN, final \in BOOLEAN, d \in UserData, uni \in NewUni,
        encoded \in BOOLEAN : FeedHeaders(trailer, final, d, uni, encoded)
  \/ \E final \in BOOLEAN, d \in UserData : FeedPayloadData(final, d)
  \/ \E writes \in Writes : SessionSendTraced(FALSE, writes)
  \/ SessionSendTraced(TRUE, <<>>)

SpecSend == InitSend /\ [][NextSend]_vars

(***************************************************************************)
(* Claims about the session.                                               *)
(***************************************************************************)
\* C4: in every reachable session state next_push_promise <= max_push_promise,
\* and nghq_get_max_promises (max - next in size_t arithmetic) is the true
\* difference, i.e. it does not underflow.
C4_PushIdWithinLimit ==
  /\ sess.next_push_promise <= sess.max_push_promise
  /\ nghq_get_max_promises(sess) = sess.max_push_promise - sess.next_push_promise

\* a server that has used up a limit it was given by a MAX_PUSH_ID frame
C4_Witness_LimitUsedUp ==
  /\ sess.role = "SERVER" /\ sess.mode = "UNICAST"
  /\ sess.next_push_promise > 0
  /\ sess.next_push_promise = sess.max_push_promise

\* every stream object of a session, in either table
Streams(s) ==
  {s.transfers[k] : k \in DOMAIN s.transfers} \cup {s.promises[k] : k \in DOMAIN s.promises}

\* C5: in every step, a stream that exists before and after the step has a
\* send_state and a recv_state that are not lower, in the order
\* OPEN < HDRS < BODY < TRAILERS < DONE, than before the step.
C5_StatesNeverRegress ==
  [][\A a \in Streams(sess) : \A b \in Streams(sess') :
        a.obj = b.obj =>
          /\ StateRank(a.send_state) <= StateRank(b.send_state)
          /\ StateRank(a.recv_state) <= StateRank(b.recv_state)]_vars

\* a stream whose sending is done and which has received body and trailers
C5_Witness_BothAdvanced ==
  \E a \in Streams(sess) : a.send_state = "DONE" /\ a.recv_state = "TRAILERS"

\* C6: every request submitted with success has had at most one
\* on_request_close callback, and exactly one once nghq_session_free is done.
C6_OneClosePerRequest ==
  \A d \in sess.submitted :
    /\ sess.closes[d] <= 1
    /\ sess.freed => sess.closes[d] = 1

\* C7: as long as the session is not freed the transfers table holds a stream
\* with id 0, and every key of a table leads to a stream with that id.
C7_StreamZeroPresent ==
  (fault = "none" /\ ~sess.freed) =>
    /\ 0 \in DOMAIN sess.transfers
    /\ \A k \in DOMAIN sess.transfers : sess.transfers[k].stream_id = k
    /\ \A k \in DOMAIN sess.promises : sess.promises[k].push_id = k

\* C12: in every step, a stream whose recv_state leaves OPEN is in HDRS
\* afterwards, and a stream whose recv_state goes from BODY to TRAILERS has
\* TRAILERS_PROMISED set (a trailer field was declared for it).
C12_TrailersOnlyIfPromised ==
  [][\A a \in Streams(sess) : \A b \in Streams(sess') :
        a.obj = b.obj =>
          /\ (a.recv_state = "OPEN" /\ b.recv_state # "OPEN") => b.recv_state = "HDRS"
          /\ (a.recv_state = "BODY" /\ b.recv_state = "TRAILERS") => a.trailers_promised]_vars

\* C14: in every step, a stream whose send_state becomes DONE (the place where
\* nghq_session_send calls on_request_close) has an empty send queue afterwards:
\* the request is closed only once every queued buffer, the one carrying fin
\* included, went to the transport.
C14_CloseOnlyWhenAllSent ==
  [][\A a \in Streams(sess) : \A b \in Streams(sess') :
        (a.obj = b.obj /\ a.send_state # "DONE" /\ b.send_state = "DONE")
          => b.send_buf = <<>>]_vars

\* C18: a call of nghq_session_send that met the limit of bytes in flight, at
\* entry or in its loop, returned NGHQ_SESSION_BLOCKED.
C18_BlockedWhenInFlightLimit ==
  sess.io.limit => sess.io.rv = "NGHQ_SESSION_BLOCKED"

\* C19: a write made of more than one buffer is never longer than
\* max_packet_size - MIN_STREAM_PACKET_OVERHEAD.
C19_PackedWithinPacket ==
  sess.io.bufs > 1 => sess.io.len <= sess.max_packet_size - MIN_STREAM_PACKET_OVERHEAD

\* the bytes queued for sending on all streams
RECURSIVE TotalQueued(_, _)
TotalQueued(s, ids) ==
  IF ids = {} THEN 0
  ELSE LET k == Min(ids)
       IN SumRemaining(s.transfers[k].send_buf) + TotalQueued(s, ids \ {k})

\* C20: a call of nghq_session_send takes from the send queues exactly the bytes
\* the transport consumed; what is left of a queue is its tail, in order, with
\* only the first buffer shortened and every buffer keeping its fin mark.
C20_ExactlySentRemoved ==
  [][sess'.io.call =>
       /\ DOMAIN sess'.transfers = DOMAIN sess.transfers
       /\ TotalQueued(sess, DOMAIN sess.transfers)
            - TotalQueued(sess', DOMAIN sess'.transfers) = sess'.io.sent
       /\ \A k \in DOMAIN sess.transfers :
            LET a == sess.transfers[k].send_buf
                b == sess'.transfers[k].send_buf
                d == Len(a) - Len(b)
            IN /\ d >= 0
               /\ \A i \in 1..Len(b) :
                    /\ b[i].complete = a[i + d].complete
                    /\ b[i].remaining <= a[i + d].remaining
                    /\ i > 1 => b[i].remaining = a[i + d].remaining]_vars

\* C15: whatever request a usable session is given, nghq_submit_request on a
\* server answers NGHQ_CLIENT_ONLY and changes nothing; on a unicast client,
\* when it answers NGHQ_OK, the transfers table has one more stream, bound to
\* request_user_data, whose queue holds a HEADERS frame, then a DATA frame if a
\* body was given, the last buffer carrying fin if final was set.
C15_SubmitRequestQueues ==
  Usable =>
    \A trailer \in BOOLEAN, len \in 0..1, final \in BOOLEAN, encoded \in BOOLEAN,
       d \in UserData \ sess.submitted, bidi \in BidiIds \ sess.opened :
      LET r == nghq_submit_request(sess, trailer, len, final, d, bidi, encoded)
      IN /\ sess.role = "SERVER" => r = Ret(sess, "NGHQ_CLIENT_ONLY")
         /\ (sess.role = "CLIENT" /\ sess.mode = "UNICAST" /\ r.rv = "NGHQ_OK") =>
              /\ bidi \notin DOMAIN sess.transfers
              /\ DOMAIN r.transfers = DOMAIN sess.transfers \cup {bidi}
              /\ r.transfers[bidi].user_data = d
              /\ LET q == r.transfers[bidi].send_buf
                 IN /\ Len(q) = IF len > 0 THEN 2 ELSE 1
                    /\ q[1].frame = "HEADERS"
                    /\ len > 0 => q[2].frame = "DATA"
                    /\ final => q[Len(q)].complete

\* C16: whatever push a usable session is asked to promise,
\* nghq_submit_push_promise on a client answers NGHQ_SERVER_ONLY and on a server
\* with next_push_promise >= max_push_promise NGHQ_PUSH_LIMIT_REACHED, the
\* session staying as it was; when it answers NGHQ_OK, next_push_promise went up
\* by one, promises has exactly one more record, keyed by and carrying the old
\* next_push_promise, and exactly one stream changed: the initiating one, whose
\* queue got one PUSH_PROMISE frame (with that push id) at its end.
C16_SubmitPushPromise ==
  Usable =>
    \A k \in DOMAIN sess.transfers, p \in UserData :
      LET init == sess.transfers[k].user_data
          id == sess.next_push_promise
          r == nghq_submit_push_promise(sess, init, p)
          changed == {j \in DOMAIN sess.transfers : r.transfers[j] # sess.transfers[j]}
      IN /\ sess.role = "CLIENT" => r = Ret(sess, "NGHQ_SERVER_ONLY")
         /\ (sess.role = "SERVER" /\ sess.next_push_promise >= sess.max_push_promise)
              => r = Ret(sess, "NGHQ_PUSH_LIMIT_REACHED")
         /\ r.rv = "NGHQ_OK" =>
              /\ sess.role = "SERVER" /\ id < sess.max_push_promise
              /\ r.next_push_promise = id + 1
              /\ id \notin DOMAIN sess.promises
              /\ DOMAIN r.promises = DOMAIN sess.promises \cup {id}
              /\ \A j \in DOMAIN sess.promises : r.promises[j] = sess.promises[j]
              /\ r.promises[id].push_id = id /\ r.promises[id].user_data = p
              /\ DOMAIN r.transfers = DOMAIN sess.transfers
              /\ Cardinality(changed) = 1
              /\ \A j \in changed :
                   /\ IF sess.mode = "MULTICAST" THEN j = NGHQ_INIT_REQUEST_STREAM_ID
                      ELSE sess.transfers[j].user_data = init
                   /\ r.transfers[j] =
                        [sess.transfers[j] EXCEPT
                           !.send_buf = Append(@, SendBuf("PUSH_PROMISE", id, 1, FALSE))]

\* a server that has promised push 0 on a request's stream and thereby used up
\* its limit: the next nghq_submit_push_promise is refused
C16_Witness_PromisedUpToLimit ==
  /\ Usable /\ sess.role = "SERVER"
  /\ 0 \in DOMAIN sess.promises /\ sess.promises[0].push_id = 0
  /\ sess.next_push_promise = 1 /\ sess.max_push_promise = 1
  /\ \E a \in Streams(sess) : \E i \in 1..Len(a.send_buf) :
        a.send_buf[i].frame = "PUSH_PROMISE" /\ a.send_buf[i].push_id = 0

\* C17: in every step, no stream object is in both tables afterwards and every
\* record of promises is a promise not yet started (no stream id, send_state
\* OPEN, nothing queued); a record that was in promises is either still there
\* unchanged, or the session was freed, or it is now in transfers under a
\* stream id the transport has just opened, with that stream_id, its push id
\* and user_data, and a queue holding one HEADERS frame prefixed by the push id.
C17_PromiseOpenedByFeedHeaders ==
  [][/\ \A k \in DOMAIN sess'.transfers : \A id \in DOMAIN sess'.promises :
           sess'.transfers[k].obj # sess'.promises[id].obj
     /\ \A id \in DOMAIN sess'.promises :
           LET a == sess'.promises[id]
           IN a.stream_id = NGHQ_STREAM_ID_MAP_NOT_FOUND /\ a.send_state = "OPEN"
                /\ a.send_buf = <<>>
     /\ \A id \in DOMAIN sess.promises :
           LET a == sess.promises[id]
           IN \/ id \in DOMAIN sess'.promises /\ sess'.promises[id] = a
              \/ sess'.freed
              \/ /\ id \notin DOMAIN sess'.promises
                 /\ \E u \in (DOMAIN sess'.transfers \ DOMAIN sess.transfers)
                               \cap (sess'.opened \ sess.opened) :
                      LET b == sess'.transfers[u]
                      IN /\ b.obj = a.obj /\ b.stream_id = u
                         /\ b.push_id = id /\ b.user_data = a.user_data
                         /\ Len(b.send_buf) = 1
                         /\ b.send_buf[1].frame = "HEADERS"
                         /\ b.send_buf[1].push_id = id]_vars

\* C21: whatever a usable session holds, nghq_session_close takes every stream
\* with an id of 4 or more out of transfers and leaves every stream with an id
\* below 4 in it.
C21_CloseFromFourUp ==
  Usable =>
    \A do_all \in BOOLEAN, uni \in NewUni, encoded \in BOOLEAN :
      LET r == nghq_session_close(sess, do_all, uni, encoded)
      IN \A k \in DOMAIN sess.transfers :
           IF k >= 4
           THEN \A j \in DOMAIN r.transfers : r.transfers[j].obj # sess.transfers[k].obj
           ELSE k \in DOMAIN r.transfers /\ r.transfers[k].obj = sess.transfers[k].obj

\* C22: on a usable multicast server, with a transport that opens the stream
\* and an encoder that works, nghq_session_close returns with stream 0 still in
\* transfers, a PUSH_PROMISE frame last on its queue, and the stream promised by
\* it in transfers with a HEADERS frame carrying fin on its queue.
C22_GoawayQueued ==
  (Usable /\ sess.role = "SERVER" /\ sess.mode = "MULTICAST") =>
    \A do_all \in BOOLEAN, uni \in NewUni \ {NGHQ_STREAM_ID_MAP_NOT_FOUND} :
      LET r == nghq_session_close(sess, do_all, uni, TRUE)
      IN /\ r.rv = "NGHQ_OK"
         /\ NGHQ_INIT_REQUEST_STREAM_ID \in DOMAIN r.transfers
         /\ LET q == r.transfers[NGHQ_INIT_REQUEST_STREAM_ID].send_buf
            IN /\ q # <<>>
               /\ q[Len(q)].frame = "PUSH_PROMISE"
               /\ \E k \in DOMAIN r.transfers :
                    LET b == r.transfers[k]
                    IN /\ b.push_id = q[Len(q)].push_id
                       /\ \E i \in 1..Len(b.send_buf) :
                            b.send_buf[i].frame = "HEADERS" /\ b.send_buf[i].complete

\* C23: no usable session makes nghq_session_close take the branch that hands
\* a null stream to nghq_stream_close: on a multicast server stream 0 is in
\* transfers when the function looks it up, after its loop over the streams.
C23_NoNullStreamClose ==
  Usable =>
    \A do_all \in BOOLEAN, uni \in NewUni, encoded \in BOOLEAN :
      nghq_session_close(sess, do_all, uni, encoded).rv # "fault"

(***************************************************************************)
(* Fake acknowledgements of a multicast sender.  Packet numbers are        *)
(* written in 1, 2 or 4 bytes; a byte of the model has ByteBits bits.      *)
(***************************************************************************)
Pow(numlen) == 2 ^ (ByteBits * numlen)

_pkt_num_mask(pkt_num) ==
  IF pkt_num < Pow(1) THEN Pow(1) - 1
  ELSE IF pkt_num < Pow(2) THEN Pow(2) - 1
  ELSE Pow(4) - 1

\* x & ~mask, for a mask of low bits
HighBits(x, mask) == x - (x % (mask + 1))

\* the packet number and the session that remembers it; pkt_num has no bit
\* above the mask, so the or is a sum
_calc_pkt_number(s, pkt_num) ==
  LET mask == _pkt_num_mask(pkt_num)
      r1 == pkt_num + HighBits(s.last_remote_pkt_num, mask)
      rv == IF pkt_num >= s.last_remote_pkt_num THEN pkt_num
            ELSE IF r1 < s.last_remote_pkt_num THEN r1 + mask + 1 ELSE r1
  IN [s |-> [s EXCEPT !.last_remote_pkt_num = rv], rv |-> rv]

\* the packet the transport writes next: its header form, and its number cut
\* to pkt_numlen bytes
WirePkt(s, short, pkt_numlen) ==
  [short |-> short, pkt_numlen |-> pkt_numlen, pkt_num |-> s.tx_pkt_num % Pow(pkt_numlen)]

\* the fake ACK for the packet with header hd; next to Largest Acknowledged
\* it records what it was computed from
nghq_mcast_fake_ack(s, hd) ==
  LET c == _calc_pkt_number(s, hd.pkt_num)
  IN [c.s EXCEPT !.recv_buf = Append(@, [ack |-> c.rv, hd |-> hd,
                                         last |-> s.last_remote_pkt_num])]

\* a sender that acknowledges whatever it takes off the queue
FakeAckAlways(s, pkt) == TRUE

\* multicast sender, and ngtcp2_pkt_decode_hd_short accepts the packet
FakeAckDue(s, pkt) == s.mode = "MULTICAST" /\ s.role # "CLIENT" /\ pkt.short

\* written is what send_callback answers for the successive packets: "all"
\* for the length of the packet, "0", "NGHQ_EOF" or another value
RECURSIVE nghq_write_send_buffer(_, _, _)
nghq_write_send_buffer(s, written, rv) ==
  IF s.send_buf = <<>> THEN Ret(s, rv)
  ELSE IF s.handshake_complete /\ (written = <<>> \/ Head(written) # "all")
  THEN Ret(s, IF written = <<>> \/ Head(written) = "0" THEN "NGHQ_SESSION_BLOCKED"
              ELSE IF Head(written) = "NGHQ_EOF" THEN "NGHQ_EOF" ELSE "NGHQ_ERROR")
  ELSE LET pkt == Head(s.send_buf)
           s1 == IF FakeAckDue(s, pkt) THEN nghq_mcast_fake_ack(s, pkt) ELSE s
       IN nghq_write_send_buffer([s1 EXCEPT !.send_buf = Tail(@)],
                                 IF s.handshake_complete THEN Tail(written) ELSE written,
                                 "NGHQ_OK")

\* What went out before: nothing; packets with short headers up to the last
\* number that fits two bytes; the same with long headers on the last
\* packets, as many as make a byte wrap.
FirstPktNum == Pow(2) - 1
SentBefore ==
  { [tx |-> 0, last |-> 0],
    [tx |-> FirstPktNum, last |-> FirstPktNum - 1],
    [tx |-> FirstPktNum, last |-> FirstPktNum - 1 - Pow(1)] }

\* the packets written since
Written(s) == IF s.tx_pkt_num >= FirstPktNum THEN s.tx_pkt_num - FirstPktNum ELSE s.tx_pkt_num

InitAck ==
  /\ wire = <<>>
  /\ recv_buf = <<>>
  /\ active_frames = <<>>
  /\ next_recv_offset = 0
  /\ data_frames_total = 0
  /\ recv_state = "OPEN"
  /\ fault = "none"
  /\ calls = <<>>
  /\ hist = NoHist
  /\ plan = <<>>
  /\ \E mode \in {"UNICAST", "MULTICAST"}, hs \in BOOLEAN, sent \in SentBefore :
        \* send_buf holds the packets themselves here, not their number; the
        \* handshake of a unicast session completes at some time
        sess = [nghq_session_new("SERVER", mode, NGHQ_PUSH_PROMISE_STREAM,
                                 MIN_STREAM_PACKET_OVERHEAD + MaxPack)
                  EXCEPT !.send_buf = <<>>, !.handshake_complete = @ \/ hs,
                         !.tx_pkt_num = sent.tx,
                         !.last_remote_pkt_num = IF mode = "MULTICAST" THEN sent.last ELSE 0]

\* the transport writes a packet and it is put on session->send_buf
QueuePkt(short, pkt_numlen) ==
  /\ Len(sess.send_buf) < MaxSendBufs
  /\ Written(sess) < MaxPktNum
  /\ sess' = [sess EXCEPT !.send_buf = Append(@, WirePkt(sess, short, pkt_numlen)),
                          !.tx_pkt_num = @ + 1]
  /\ UNCHANGED rvars

WriteSendBuffer(written) ==
  /\ Len(sess.recv_buf) + Len(sess.send_buf) <= MaxSendBufs
  /\ sess' = nghq_write_send_buffer(sess, written, "NGHQ_NO_MORE_DATA")
  /\ UNCHANGED rvars

\* nghq_session_recv hands the queued packets to the transport, which finds
\* no stream data in a fake ACK
ReadAcks ==
  /\ sess.recv_buf # <<>>
  /\ sess' = [sess EXCEPT !.recv_buf = <<>>, !.rv = "NGHQ_OK"]
  /\ UNCHANGED rvars

SendResults == {"all", "0", "NGHQ_EOF", "NGHQ_ERROR"}

NextAck ==
  \/ \E short \in BOOLEAN, pkt_numlen \in {1, 2, 4} : QueuePkt(short, pkt_numlen)
  \/ \E n \in 0..MaxSendBufs : \E written \in [1..n -> SendResults] : WriteSendBuffer(written)
  \/ ReadAcks

SpecAck == InitAck /\ [][NextAck]_vars

(***************************************************************************)
(* The timer adapter.  The transport names two expiry times, for loss      *)
(* detection and for the delayed ACK; _update_timers brings the host's     *)
(* timers in line with them.                                               *)
(***************************************************************************)
Timers == {"loss", "ack"}
TimerField(which) == IF which = "loss" THEN "conn_loss_timer" ELSE "conn_ack_timer"
TstampField(which) == IF which = "loss" THEN "conn_loss_tstamp" ELSE "conn_ack_tstamp"
TimeoutName(which) == IF which = "loss" THEN "_conn_loss_timeout" ELSE "_conn_ack_timeout"

\* a call of the timer adapter or of the host, as kept in session.log
TimerCall(cb, which, timer) == [cb |-> cb, which |-> which, timer |-> timer]

Logged(s, call) == [s EXCEPT !.log = Append(@, call)]

get_timestamp_now(s) == s.session_user_data.now

\* the stand-alone packet the transport writes is pushed onto the send queue
\* and the queue is written out; written is what send_callback answers
_conn_ack_timeout(s, timer_id, written) ==
  LET s1 == Logged([s EXCEPT !.conn_ack_timer = NULL],
                   TimerCall("_conn_ack_timeout", "ack", timer_id))
      s2 == [s1 EXCEPT !.send_buf = Append(@, WirePkt(s1, TRUE, 1)),
                       !.tx_pkt_num = @ + 1]
  IN nghq_write_send_buffer(s2, written, "NGHQ_NO_MORE_DATA")

\* ngtcp2_conn_on_loss_detection_timer is the transport's own
_conn_loss_timeout(s, timer_id) ==
  Logged([s EXCEPT !.conn_loss_timer = NULL],
         TimerCall("_conn_loss_timeout", "loss", timer_id))

\* cb (session, timer_id, data) for the timer event of one of the two timers
TimerEvent(s, which, timer_id, written) ==
  IF which = "loss" THEN _conn_loss_timeout(s, timer_id)
  ELSE _conn_ack_timeout(s, timer_id, written)

\* the host forgets the timer
cancel_timer_callback(s, timer) ==
  Logged([s EXCEPT !.session_user_data.armed = {t \in @ : t.id # timer}],
         TimerCall("cancel_timer_callback", "", timer))

\* the host moves the expiry of the timer, if it still has it
reset_timer_callback(s, timer, from_now) ==
  Logged([s EXCEPT !.session_user_data.armed =
                     {IF t.id = timer THEN [t EXCEPT !.at = get_timestamp_now(s) + from_now]
                      ELSE t : t \in @}],
         TimerCall("reset_timer_callback", "", timer))

\* The host makes a timer.  A host may run the timer event before it returns
\* (fires), and then has no timer left to keep; the handle it returns is its
\* own choice: the one of the timer it made, or NULL (null).  The answer is
\* the session and the handle returned.
set_timer_callback(s, from_now, which, fires, null, written) ==
  LET h == s.session_user_data
      s1 == Logged([s EXCEPT !.session_user_data.next = @ + 1],
                   TimerCall("set_timer_callback", which, h.next))
      s2 == IF fires THEN TimerEvent(s1, which, h.next, written)
            ELSE [s1 EXCEPT !.session_user_data.armed =
                              @ \cup {[id |-> h.next, which |-> which,
                                       at |-> h.now + from_now]}]
  IN [s |-> s2, timer |-> IF fires /\ null THEN NULL ELSE h.next]

\* host is what the host does in set_timer_callback and send_callback, should
\* they be called: [fires, null, written]
_adjust_timer(s, trigger_time, which, host) ==
  LET timer == TimerField(which)
      tstamp == TstampField(which)
      now == get_timestamp_now(s)
  IN IF trigger_time = s[tstamp] THEN s
     ELSE LET s1 ==
                IF trigger_time = UINT64_MAX
                THEN \* cancel expiry timer
                     IF s[timer] # NULL
                     THEN [cancel_timer_callback(s, s[timer]) EXCEPT ![timer] = NULL]
                     ELSE s
                ELSE IF trigger_time <= now
                THEN \* time has passed, do now and cancel any existing timer
                     LET c == TimerEvent(s, which, s[timer], host.written)
                     IN IF c[timer] # NULL
                        THEN [cancel_timer_callback(c, c[timer])
                                EXCEPT ![timer] = NULL, ![tstamp] = UINT64_MAX]
                        ELSE c
                ELSE IF s[timer] # NULL
                THEN \* timer already exists, update
                     reset_timer_callback(s, s[timer], trigger_time - now)
                ELSE \* create new expiry timer
                     LET r == set_timer_callback(s, trigger_time - now, which, host.fires,
                                                 host.null, host.written)
                     IN [r.s EXCEPT ![timer] = r.timer]
          IN [s1 EXCEPT ![tstamp] = trigger_time]

\* ts is what the transport names as its expiry times
_update_timers(s, ts, host) ==
  IF ~s.handshake_complete THEN s
  ELSE LET s1 == _adjust_timer(s, ts.loss, "loss", host.loss)
       IN _adjust_timer(s1, ts.ack, "ack", host.ack)

InitTimer ==
  /\ wire = <<>>
  /\ recv_buf = <<>>
  /\ active_frames = <<>>
  /\ next_recv_offset = 0
  /\ data_frames_total = 0
  /\ recv_state = "OPEN"
  /\ fault = "none"
  /\ calls = <<>>
  /\ hist = NoHist
  /\ plan = <<>>
  \* a unicast server after the handshake; send_buf holds the packets
  \* themselves here
  /\ sess = [nghq_session_new("SERVER", "UNICAST", NGHQ_PUSH_PROMISE_STREAM,
                              MIN_STREAM_PACKET_OVERHEAD + MaxPack)
               EXCEPT !.send_buf = <<>>, !.handshake_complete = TRUE]

Times == 0..MaxTime \cup {UINT64_MAX}

\* the handle matters only when the timer event ran inside set_timer
HostChoices == {h \in [fires : BOOLEAN, null : BOOLEAN, written : {<<"all">>}] :
                  h.null => h.fires}

\* nghq_session_recv and nghq_session_send end with _update_timers
UpdateTimers(ts, host) ==
  /\ sess.session_user_data.next <= MaxTimers
  /\ sess.tx_pkt_num < MaxWrites
  /\ sess' = _update_timers([sess EXCEPT !.log = <<TimerCall("_update_timers", "", NULL)>>],
                            ts, host)
  /\ UNCHANGED rvars

\* the clock of the host moves on
Tick ==
  /\ sess.session_user_data.now < MaxTime
  /\ sess' = [sess EXCEPT !.session_user_data.now = @ + 1]
  /\ UNCHANGED rvars

\* a timer of the host expires: the host drops it and runs its timer event
HostTimerFires(t) ==
  /\ t \in sess.session_user_data.armed
  /\ t.at <= sess.session_user_data.now
  /\ sess.tx_pkt_num < MaxWrites
  /\ sess' = TimerEvent([sess EXCEPT !.session_user_data.armed = @ \ {t},
                                     !.log = <<TimerCall("timer_event", t.which, t.id)>>],
                        t.which, t.id, <<"all">>)
  /\ UNCHANGED rvars

NextTimer ==
  \/ \E loss \in Times, ack \in Times, hl \in HostChoices, ha \in HostChoices :
        UpdateTimers([loss |-> loss, ack |-> ack], [loss |-> hl, ack |-> ha])
  \/ Tick
  \/ \E t \in sess.session_user_data.armed : HostTimerFires(t)

SpecTimer == InitTimer /\ [][NextTimer]_vars

(***************************************************************************)
(* Claims about the receive path of a multicast client.                    *)
(***************************************************************************)
LogCount(s, cb) == Cardinality({i \in 1..Len(s.log) : s.log[i].cb = cb})

\* C24: when a multicast client parses a PUSH_PROMISE frame to headers with
\* :path goaway and connection close, the next thing it does is to call
\* nghq_session_close, which closes the lowest stream above 4; the call of
\* nghq_session_recv reads no packet after that and leaves none queued; it
\* makes no promise record and calls neither on_begin_promise nor on_headers
\* for the frame: records and callbacks are as many as the frames parsed to
\* requests.
C24_GoawayClosesSession ==
  [][ /\ \A i \in (Len(sess.log) + 1)..Len(sess'.log) :
           sess'.log[i].cb = "push_promise_goaway" =>
             /\ i < Len(sess'.log) /\ sess'.log[i + 1].cb = "nghq_session_close"
             /\ \A j \in (i + 1)..Len(sess'.log) : sess'.log[j].cb # "ngtcp2_conn_read_pkt"
             /\ fault' = "none" => sess'.recv_buf = <<>>
             /\ LET up == {k \in DOMAIN sess.transfers : k > 4}
                IN up # {} => Min(up) \notin DOMAIN sess'.transfers
      /\ sess'.recv_promises = LogCount(sess', "push_promise_request")
      /\ LogCount(sess', "on_begin_promise") = LogCount(sess', "push_promise_request")
      /\ LogCount(sess', "on_headers") = LogCount(sess', "push_promise_request")
      /\ LogCount(sess', "nghq_session_close") = LogCount(sess', "push_promise_goaway")
    ]_vars

\* the first frame announced the end of the session and the packet with the
\* second frame, read in the same call, was dropped
C24_Witness_PacketsDropped ==
  /\ fault = "none" /\ hist.n = 1
  /\ LogCount(sess, "push_promise_goaway") = 1
  /\ LogCount(sess, "ngtcp2_conn_read_pkt") = 1
  /\ (FrameHdrLen + 3)..(Len(wire) - 1) \subseteq hist.seen
  /\ Len(wire) > FrameHdrLen + 2
  /\ sess.recv_buf = <<>>
  /\ sess.promises = EmptyMap

\* C25: a client calls on_begin_promise once for a push id, on_headers for a
\* promised request only after the on_begin_promise that introduced it, and
\* makes one promise record for a push id, however often the bytes of its
\* PUSH_PROMISE frame arrive.
C25_PromiseBegunOnce ==
  /\ \A i, j \in 1..Len(sess.log) :
       (sess.log[i].cb = "on_begin_promise" /\ sess.log[j].cb = "on_begin_promise"
          /\ sess.log[i].push_id = sess.log[j].push_id) => i = j
  /\ \A j \in 1..Len(sess.log) :
       sess.log[j].cb = "on_headers" =>
         \E i \in 1..(j - 1) : sess.log[i].cb = "on_begin_promise"
                                /\ sess.log[i].user_data = sess.log[j].user_data
  /\ sess.recv_promises <= Cardinality({sess.log[i].push_id : i \in 1..Len(sess.log)} \ {-1})

(***************************************************************************)
(* Claims about the fake acknowledgements.                                 *)
(***************************************************************************)
\* the reconstruction of a packet number from its last pkt_numlen bytes: the
\* bytes above are those of the last number seen, one more if that leaves
\* the number behind it
Reconstruct(pkt_num, pkt_numlen, last) ==
  LET mask == Pow(pkt_numlen) - 1
      r1 == pkt_num + HighBits(last, mask)
  IN IF pkt_num >= last THEN pkt_num
     ELSE IF r1 < last THEN r1 + mask + 1 ELSE r1

\* C26: the Largest Acknowledged of every fake ACK is the number rebuilt from
\* the truncated packet number, the number of bytes it was written in and the
\* number seen last, and is not below the number seen last.
C26_FakeAckPktNumber ==
  \A i \in 1..Len(sess.recv_buf) :
    LET f == sess.recv_buf[i]
    IN /\ f.ack = Reconstruct(f.hd.pkt_num, f.hd.pkt_numlen, f.last)
       /\ f.ack >= f.last

\* the short-header packets among the first n of the send queue
RECURSIVE ShortOf(_, _)
ShortOf(q, n) ==
  IF n = 0 THEN <<>>
  ELSE IF Head(q).short THEN <<Head(q)>> \o ShortOf(Tail(q), n - 1)
  ELSE ShortOf(Tail(q), n - 1)

InlineTimeouts(s, which) ==
  {i \in 2..Len(s.log) : /\ s.log[i].cb = TimeoutName(which)
                         /\ s.log[i - 1].cb # "set_timer_callback"}

\* the timer events of one timer that the host ran inside set_timer
TimeoutsInSet(s, which) ==
  {i \in 2..Len(s.log) : /\ s.log[i].cb = TimeoutName(which)
                         /\ s.log[i - 1].cb = "set_timer_callback"}

ByUpdateTimers(s) == s.log # <<>> /\ s.log[1].cb = "_update_timers"

\* C28: when _update_timers met an expiry in the past, it ran the timer event
\* of that timer once, the handle of the timer is NULL afterwards, and a
\* timer the host had armed for it was cancelled with cancel_timer and is no
\* longer armed.
C28_PastExpiryCancelsTimer ==
  ByUpdateTimers(sess) =>
    \A which \in Timers : \A i \in InlineTimeouts(sess, which) :
      /\ Cardinality(InlineTimeouts(sess, which)) = 1
      /\ sess[TimerField(which)] = NULL
      /\ sess.log[i].timer # NULL =>
           /\ \E j \in 1..Len(sess.log) :
                 sess.log[j] = TimerCall("cancel_timer_callback", "", sess.log[i].timer)
           /\ \A t \in sess.session_user_data.armed : t.id # sess.log[i].timer

\* C29: when the host ran the timer event inside set_timer, the handle of
\* that timer is NULL once _update_timers has returned.
C29_FiredInSetTimerClearsHandle ==
  ByUpdateTimers(sess) =>
    \A which \in Timers :
      TimeoutsInSet(sess, which) # {} => sess[TimerField(which)] = NULL
(***************************************************************************)
(* Claims about misuse of the API.                                         *)
(***************************************************************************)
\* user_data that no stream and no promise carries
UnknownData(s) ==
  {d \in UserData : /\ nghq_stream_id_map_search(s.transfers, d) = NGHQ_STREAM_ID_MAP_NOT_FOUND
                    /\ nghq_stream_id_map_search(s.promises, d) = NGHQ_STREAM_ID_MAP_NOT_FOUND}

\* user_data of the streams that have sent their last
ClosedData(s) ==
  {d \in UserData : LET k == nghq_stream_id_map_search(s.transfers, d)
                    IN /\ k # NGHQ_STREAM_ID_MAP_NOT_FOUND
                       /\ s.transfers[k].send_state = "DONE"}

\* the call answered rv and changed nothing of the session
Refused(r, rv) == r.rv = rv /\ [r EXCEPT !.rv = sess.rv] = sess

\* C30: nghq_feed_headers, nghq_feed_payload_data, nghq_set_request_user_data
\* and nghq_end_request answer NGHQ_BAD_USER_DATA for user_data that no stream
\* and no promise carries, feeding headers or data to a stream that has sent
\* its last answers NGHQ_REQUEST_CLOSED, and none of these calls changes
\* anything of the session.
C30_MisuseLeavesSessionIntact ==
  Usable =>
    /\ \A d \in UnknownData(sess), b \in BOOLEAN, final \in BOOLEAN, uni \in NewUni :
         /\ Refused(nghq_feed_headers(sess, b, final, d, uni, b), "NGHQ_BAD_USER_DATA")
         /\ Refused(nghq_feed_payload_data(sess, final, d), "NGHQ_BAD_USER_DATA")
         /\ Refused(nghq_set_request_user_data(sess, d, d), "NGHQ_BAD_USER_DATA")
         /\ Refused(nghq_end_request(sess, d, "NGHQ_OK"), "NGHQ_BAD_USER_DATA")
    /\ \A d \in ClosedData(sess), b \in BOOLEAN, final \in BOOLEAN, uni \in NewUni :
         /\ Refused(nghq_feed_headers(sess, b, final, d, uni, b), "NGHQ_REQUEST_CLOSED")
         /\ Refused(nghq_feed_payload_data(sess, final, d), "NGHQ_REQUEST_CLOSED")

(***************************************************************************)
(* Claims about the frames of a stream.                                    *)
(***************************************************************************)
\* the stream offset behind the last byte of a frame
FrameEnd(f) == f.offset + f.buf_len

\* C31: after every call that returned, the active frames of the stream lie
\* one behind the other in list order without sharing a byte (so no frame
\* header was read inside a frame that was active), and next_recv_offset,
\* the end of the frame started last, is not before the end of any of them.
C31_FramesDisjointInOrder ==
  fault = "none" =>
    /\ \A i \in 1..Len(active_frames) : \A j \in (i + 1)..Len(active_frames) :
         FrameEnd(active_frames[i]) <= active_frames[j].offset
    /\ \A i \in 1..Len(active_frames) : FrameEnd(active_frames[i]) <= next_recv_offset
\* C32: once a range that ends the stream was inserted with the end-of-stream
\* mark, the buffer that holds the last byte of the stream has its complete
\* flag set, whatever was held before and whatever buffers were merged.
C32_FinKept ==
  (fault = "none" /\ hist.fin) =>
    \E i \in 1..Len(recv_buf) :
      /\ recv_buf[i].offset + Len(recv_buf[i].buf) = Len(wire)
      /\ recv_buf[i].complete

(***************************************************************************)
(* Claims about the send half of a stream.                                 *)
(***************************************************************************)
\* C33: nghq_feed_headers on a stream whose send half is in BODY moves it to
\* TRAILERS when the trailers were promised and answers
\* NGHQ_TRAILERS_NOT_PROMISED otherwise; on a stream in DONE it answers
\* NGHQ_REQUEST_CLOSED; both refusals queue nothing and change nothing. The
\* promise is raised only by a headers block with a trailer field fed while
\* the send half is in OPEN or HDRS.
C33_TrailersOnlyWhenPromised ==
  Usable =>
    \A d \in UserData, trailer \in BOOLEAN, final \in BOOLEAN, encoded \in BOOLEAN,
       uni \in NewUni :
      LET k == nghq_stream_id_map_search(sess.transfers, d)
          r == nghq_feed_headers(sess, trailer, final, d, uni, encoded)
      IN k # NGHQ_STREAM_ID_MAP_NOT_FOUND =>
           LET stream == sess.transfers[k]
           IN /\ (stream.send_state = "BODY" /\ ~stream.trailers_promised)
                   => Refused(r, "NGHQ_TRAILERS_NOT_PROMISED")
              /\ stream.send_state = "DONE" => Refused(r, "NGHQ_REQUEST_CLOSED")
              /\ (stream.send_state = "BODY" /\ stream.trailers_promised /\ encoded)
                   => /\ r.rv = "NGHQ_OK"
                      /\ r.transfers[k].send_state = "TRAILERS"
                      /\ r.transfers[k].send_buf =
                           Append(stream.send_buf, SendBuf("HEADERS", -1, 1, final))
              /\ (~stream.trailers_promised /\ r.transfers[k].trailers_promised)
                   => trailer /\ stream.send_state \in {"OPEN", "HDRS"}
              /\ stream.trailers_promised => stream.send_state # "OPEN"

\* a stream whose trailers were promised was fed body and then headers: it is
\* in TRAILERS with the HEADERS frame queued behind the DATA frame
C33_Witness_TrailersAfterBody ==
  /\ Usable
  /\ \E k \in DOMAIN sess.transfers :
       LET stream == sess.transfers[k]
       IN /\ stream.send_state = "TRAILERS" /\ stream.trailers_promised
          /\ Len(stream.send_buf) = 2
          /\ stream.send_buf[1].frame = "DATA" /\ stream.send_buf[2].frame = "HEADERS"

\* C34: in every step, no stream's send half goes from OPEN to BODY, and a
\* DATA frame is queued only on a stream whose send half has left OPEN, that
\* is, on which headers were fed before.
C34_HeadersBeforeBody ==
  [][\A k \in DOMAIN sess.transfers \cap DOMAIN sess'.transfers :
       LET a == sess.transfers[k]
           b == sess'.transfers[k]
       IN /\ ~(a.send_state = "OPEN" /\ b.send_state = "BODY")
          /\ (/\ Len(b.send_buf) > Len(a.send_buf)
              /\ b.send_buf[Len(b.send_buf)].frame = "DATA") => a.send_state # "OPEN"]_vars

\* C35: a call of nghq_session_send in which ngtcp2_conn_write_stream fails
\* with one of the three yielding errors returns NGHQ_OK, with any other
\* error NGHQ_TRANSPORT_ERROR, and in both cases leaves every send queue,
\* every send_state and the session send buffer as the writes before the
\* failing one left them.
C35_YieldOnRecoverableError ==
  Usable =>
    \A w \in Writes, e \in WriteErrs :
      Len(w) < MaxWrites /\ (\A i \in 1..Len(w) : w[i] > 0) =>
        LET r == nghq_session_send(sess, FALSE, w \o <<e>>)
            before == nghq_session_send(sess, FALSE, w)
        IN r.io.err = e =>
             /\ r.rv = IF e \in YieldingErrs THEN "NGHQ_OK" ELSE "NGHQ_TRANSPORT_ERROR"
             /\ r.transfers = before.transfers
             /\ r.send_buf = before.send_buf

\* a call of nghq_session_send wrote part of a queue, met a yielding error
\* at the next write and returned NGHQ_OK with buffers still queued
C35_Witness_YieldedWithDataQueued ==
  /\ sess.io.call /\ sess.io.err \in YieldingErrs /\ sess.io.rv = "NGHQ_OK"
  /\ sess.io.sent > 0
  /\ \E k \in DOMAIN sess.transfers : sess.transfers[k].send_buf # <<>>

(***************************************************************************)
(* Claims about the calls coming back.                                     *)
(***************************************************************************)
\* C36: every call of nghq_recv_stream_data returns, whatever the state of
\* the stream and the range handed over: no call stays for ever in the loop
\* over the active frames, not even with the bytes of a DATA frame while
\* recv_state is OPEN.
C36_RecvStreamDataReturns == fault # "hang"

(***************************************************************************)
(* Claims about the limit of push promises.                                *)
(***************************************************************************)
\* C37: no step lowers max_push_promise; nghq_set_max_promises with a value
\* that would lower it answers NGHQ_INVALID_PUSH_LIMIT and a MAX_PUSH_ID
\* frame with a smaller value is answered NGHQ_HTTP_MALFORMED_FRAME, each
\* changing nothing of the session.
C37_MaxPushPromiseNeverLowered ==
  [][/\ sess'.max_push_promise >= sess.max_push_promise
     /\ Usable =>
          \A n \in PushArgs :
            /\ (sess.role = "CLIENT" /\ Wrap(sess.next_push_promise + n) < sess.max_push_promise)
                 => Refused(nghq_set_max_promises(sess, n), "NGHQ_INVALID_PUSH_LIMIT")
            /\ (sess.role = "SERVER" /\ n < sess.max_push_promise)
                 => Refused(_nghq_stream_max_push_id_frame(sess, n),
                            "NGHQ_HTTP_MALFORMED_FRAME")]_vars

\* a unicast server whose limit a MAX_PUSH_ID frame has raised, so that a
\* frame with a smaller value can come
C37_Witness_LimitRaised ==
  /\ Usable
  /\ sess.role = "SERVER" /\ sess.mode = "UNICAST"
  /\ sess.max_push_promise > 0 /\ sess.max_push_promise <= MaxPushArg

UnicastServer(s) == s.role = "SERVER" /\ s.mode = "UNICAST"

C39_LimitRaisedOnlyWithFrame ==
  Usable =>
    \A n \in PushArgs :
      LET r == nghq_set_max_promises(sess, n)
      IN /\ r.rv # "NGHQ_OK" => r.max_push_promise = sess.max_push_promise
         /\ r.max_push_promise # sess.max_push_promise =>
              /\ nghq_stream_id_map_find(r.transfers, NGHQ_CONTROL_CLIENT)
              /\ r.transfers[NGHQ_CONTROL_CLIENT].send_buf # <<>>
              /\ LET q == r.transfers[NGHQ_CONTROL_CLIENT].send_buf
                 IN q[Len(q)].frame = "MAX_PUSH_ID"

(***************************************************************************)
(* Claims about the session send queue.                                    *)
(***************************************************************************)
\* the number of packets send_callback took whole before its first other answer
LeadingAll(written) ==
  Cardinality({i \in 1..Len(written) : \A j \in 1..i : written[j] = "all"})

\* C40: whatever send_callback answers, nghq_write_send_buffer takes off the
\* front of the send queue exactly the packets the callback took whole, in
\* order; at the first other answer the packet stays at the head and the call
\* answers NGHQ_SESSION_BLOCKED (0 bytes), NGHQ_EOF or NGHQ_ERROR; it answers
\* NGHQ_OK only with the queue emptied.
C40_PacketsSentInOrder ==
  \A written \in [1..Len(sess.send_buf) -> SendResults] :
    LET r == nghq_write_send_buffer(sess, written, "NGHQ_NO_MORE_DATA")
        n == Len(sess.send_buf) - Len(r.send_buf)
    IN /\ n >= 0
       /\ r.send_buf = SubSeq(sess.send_buf, n + 1, Len(sess.send_buf))
       /\ n = LeadingAll(written)
       /\ n < Len(sess.send_buf) =>
            r.rv = CASE written[n + 1] = "0" -> "NGHQ_SESSION_BLOCKED"
                     [] written[n + 1] = "NGHQ_EOF" -> "NGHQ_EOF"
                     [] OTHER -> "NGHQ_ERROR"
       /\ r.rv = "NGHQ_OK" => r.send_buf = <<>>
====
